---- MODULE Spec2Model ----
(***************************************************************************)
(* A model of the two infrastructural subsystems of the Faze/Plarson       *)
(* plugin toolkit:                                                         *)
(*   - Observer (the mutation watcher): listeners keyed by a CSS selector, *)
(*     fed by one MutationObserver over the whole document;                *)
(*   - REST.chain / REST.request (the chained remote-call engine).         *)
(* The DOM is a forest over a finite set of nodes; the platform's          *)
(* MutationObserver is a queue of childList records delivered in batches.  *)
(***************************************************************************)
EXTENDS Integers, Sequences, FiniteSets, TLC

(***************************************************************************)
(* Bounds of the model.                                                    *)
(***************************************************************************)
NumNodes == 3
MaxOps == 2
MaxSteps == 3
MaxFields == 3

\* operations on the elements that carry a chain
MaxCalls == 3

\* steps of the chain a form declares
MaxFormSteps == 2

\* document.documentElement, the root the MutationObserver observes
Root == 0
\* a null parentNode (the node is the root of a detached tree)
Null == -1

Nodes == 1..NumNodes

\* The plugins that register a listener when they are hot-initialized, in
\* their order of registration, each by the data-faze token of its selector
\* (Tooltip.hotInitialize: '[data-faze~="tooltip"]').
Plugins == <<"tooltip", "select">>

\* The tokens of each node's data-faze attribute: it decides which
\* selectors the node matches.  Node ids repeat the pattern
\* tooltip / tooltip+select / plain container.
DataFaze(n) ==
  IF n % 3 = 1 THEN {"tooltip"}
  ELSE IF n % 3 = 2 THEN {"tooltip", "select"}
  ELSE {}

VARIABLES
  parent,      \* DOM: parent[n] is n's parentNode (Root, a node, or Null)
  queue,       \* MutationObserver: records queued and not yet delivered
  listeners,   \* Observer.listeners: sequence of Listener
  calls,       \* history: calls[l][n] = invocations of listener l's callback on n
  snapshot,    \* history: snapshot[l] = nodes matching when watch() was called
  lastFired,   \* history: lastFired[l] = nodes listener l's callback was invoked on
               \*          in the last batch, in order
  logged,      \* history: logged[l] = exceptions of listener l caught in the last batch
  uncaught,    \* history: an exception left the last batch handler
  ops          \* number of DOM operations performed so far

obsVars ==
  <<parent, queue, listeners, calls, snapshot, lastFired, logged, uncaught, ops>>

VARIABLES
  chainInput,  \* history: the arguments chain() was called with
  chainData,   \* the step array chain() works on (shifted as steps are taken)
  status,      \* where the chain invocation is
  pending,     \* the request step whose response is awaited (as a sequence)
  log          \* history: what the invocation did, in order

chainVars == <<chainInput, chainData, status, pending, log>>

VARIABLES
  reqInput,    \* history: the arguments request() was called with, and the page
  reqStatus,   \* where the call of request() is
  fetched,     \* the calls of fetch() made so far
  reqOutcome,  \* history: how the fetch promise settled
  reqLog       \* history: DOM writes, calls of callbackSuccess, console errors

reqVars == <<reqInput, reqStatus, fetched, reqOutcome, reqLog>>

VARIABLES
  formInput,    \* history: the form formSubmit() was called with
  formStatus,   \* where the call of formSubmit() is
  formAppended, \* history: the objects appended to the outgoing data, with
                \*          the key each was appended under
  formCallback, \* the callback formSubmit() was given: "none" when it is not
                \* a function, else what the function does
  formLog       \* history: what callbackSuccess wrote into the notification
                \*          regions, and its exceptions

formVars == <<formInput, formStatus, formAppended, formCallback, formLog>>

VARIABLES
  elementId,     \* the id attribute of each element, 0 when it has none
  elementValue,  \* the current value of each element
  timers,        \* the timers set by setTimeout that have not fired
  dataLog,       \* what the calls of REST.dataAttr did, in order
  dataOps        \* number of operations on the elements so far

dataVars == <<elementId, elementValue, timers, dataLog, dataOps>>

VARIABLES
  stepInput      \* the request step handed to REST.chain, as declared

stepVars == <<stepInput>>

VARIABLES
  sharedInput,   \* history: the array both invocations of chain() were given
  shared,        \* that array, as the shifts have left it
  invocations    \* the two invocations of chain() on it: final callback,
                 \* status, pending request, log

sharedVars == <<sharedInput, shared, invocations>>

restVars == <<dataVars, stepVars, sharedVars>>

vars == <<obsVars, chainVars, reqVars, formVars, restVars>>

(***************************************************************************)
(* DOM helpers                                                             *)
(***************************************************************************)
RECURSIVE IsUnder(_, _, _)
\* n is a proper descendant of p in the tree par
IsUnder(par, n, p) ==
  IF par[n] = Null THEN FALSE
  ELSE IF par[n] = p THEN TRUE
  ELSE IF par[n] = Root THEN FALSE
  ELSE IsUnder(par, par[n], p)

\* n is attached to the observed document
InDocument(par, n) == IsUnder(par, n, Root)

\* scope.querySelectorAll(selector): the proper descendants of scope that
\* match the selector
QuerySelectorAll(par, scope, selector) ==
  {n \in Nodes : selector \in DataFaze(n) /\ IsUnder(par, n, scope)}

\* a childList MutationRecord: the nodes added to and removed from one parent
Record(added, removed) == [addedNodes |-> added, removedNodes |-> removed]

(***************************************************************************)
(* Observer.check, part_001:276-318.  The working state of one listener    *)
(* while a batch is processed:                                             *)
(*   known    - listener.alreadyExistedNodes (no duplicates are ever       *)
(*              pushed, so the array is modelled by its set of elements)   *)
(*   fired    - the nodes the callback was invoked on, in order            *)
(*   logged   - exceptions caught and written to console.error             *)
(*   escaped  - an exception left the handler                              *)
(***************************************************************************)
\* what a listener's callback does when invoked: it returns, or it throws
CallbackKinds == {"returns", "throws"}

MinOf(S) == CHOOSE x \in S : \A y \in S : x <= y

\* InvokeCallback without its try/catch: the exception leaves the handler
InvokeCallbackUncaught(st, el) ==
  [st EXCEPT !.fired = Append(@, el),
             !.escaped = (st.callback = "throws")]

\* part_001:291-296: the callback is invoked inside try/catch; an exception
\* is written to console.error
InvokeCallback(st, el) ==
  [st EXCEPT !.fired = Append(@, el),
             !.logged = IF st.callback = "throws" THEN @ + 1 ELSE @]

\* part_001:289-302: one element returned by parentNode.querySelectorAll
HandleInserted(st, el) ==
  IF st.escaped THEN st
  ELSE IF el \in st.known THEN st
  ELSE IF st.callback \notin CallbackKinds THEN st
  ELSE LET called == InvokeCallback(st, el)
       IN IF called.escaped THEN called
          ELSE [called EXCEPT !.known = @ \cup {el}]

RECURSIVE ForEachInserted(_, _)
\* part_001:287: forEach over the query result
ForEachInserted(st, els) ==
  IF els = {} THEN st
  ELSE LET el == MinOf(els)
       IN ForEachInserted(HandleInserted(st, el), els \ {el})

\* part_001:282-305: one added node; the query runs on its current parent
HandleAdded(st, par, selector, addedNode) ==
  IF par[addedNode] = Null THEN st
  ELSE ForEachInserted(st, QuerySelectorAll(par, par[addedNode], selector))

RECURSIVE ForEachAdded(_, _, _, _)
ForEachAdded(st, par, selector, added) ==
  IF added = <<>> THEN st
  ELSE ForEachAdded(HandleAdded(st, par, selector, Head(added)),
                    par, selector, Tail(added))

\* HandleRemoved with the filter left out: nothing is evicted
HandleRemovedKeeps(st, removedNode) == st

\* part_001:309-315: one removed node is filtered out of alreadyExistedNodes
HandleRemoved(st, removedNode) ==
  IF st.escaped THEN st
  ELSE [st EXCEPT !.known = @ \ {removedNode}]

RECURSIVE ForEachRemoved(_, _)
ForEachRemoved(st, removed) ==
  IF removed = <<>> THEN st
  ELSE ForEachRemoved(HandleRemoved(st, Head(removed)), Tail(removed))

\* part_001:280-316: one mutation record, added nodes first, then removed
HandleRecord(st, par, selector, rec) ==
  ForEachRemoved(ForEachAdded(st, par, selector, rec.addedNodes),
                 rec.removedNodes)

RECURSIVE ForEachRecord(_, _, _, _)
ForEachRecord(st, par, selector, records) ==
  IF records = <<>> THEN st
  ELSE ForEachRecord(HandleRecord(st, par, selector, Head(records)),
                     par, selector, Tail(records))

\* part_001:278: the body run for one listener over the whole batch;
\* escaped says whether an earlier listener's exception already ended the handler
CheckListener(listener, par, records, escaped) ==
  ForEachRecord([known |-> listener.alreadyExistedNodes,
                 callback |-> listener.callback,
                 fired |-> <<>>, logged |-> 0, escaped |-> escaped],
                par, listener.selector, records)

RECURSIVE CheckFrom(_, _, _, _, _)
\* part_001:278: listeners.forEach, from listener i on; out collects the
\* per-listener results
CheckFrom(ls, i, par, records, out) ==
  IF i > Len(ls) THEN out
  ELSE LET esc == IF out = <<>> THEN FALSE ELSE out[Len(out)].escaped
           res == CheckListener(ls[i], par, records, esc)
       IN CheckFrom(ls, i + 1, par, records, Append(out, res))

\* Observer.check(mutationRecords)
Check(ls, par, records) == CheckFrom(ls, 1, par, records, <<>>)


(***************************************************************************)
(* The page: DOM operations of scripts, each queueing the childList        *)
(* records the platform produces for observed parents.                     *)
(***************************************************************************)
\* q is the document root or attached to it: its childList is observed
Observed(par, q) == IF q = Root THEN TRUE ELSE InDocument(par, q)

\* the record of n leaving its current parent, if that parent is observed
RemovalRecords(par, n) ==
  IF par[n] # Null /\ Observed(par, par[n])
  THEN <<Record(<<>>, <<n>>)>>
  ELSE <<>>

\* p may become the parent of n: p is not n and not inside n
CanHold(par, p, n) == IF p = Root THEN TRUE ELSE p # n /\ ~IsUnder(par, p, n)

\* p.appendChild(n): n leaves its old parent (if any) and becomes a child of p
AppendChild(p, n) ==
  /\ ops < MaxOps
  /\ CanHold(parent, p, n)
  /\ parent' = [parent EXCEPT ![n] = p]
  /\ queue' = queue \o RemovalRecords(parent, n)
                    \o (IF Observed(parent, p) THEN <<Record(<<n>>, <<>>)>> ELSE <<>>)
  /\ ops' = ops + 1
  /\ UNCHANGED <<listeners, calls, snapshot, lastFired, logged, uncaught>>

\* n.remove()
RemoveChild(n) ==
  /\ ops < MaxOps
  /\ parent[n] # Null
  /\ parent' = [parent EXCEPT ![n] = Null]
  /\ queue' = queue \o RemovalRecords(parent, n)
  /\ ops' = ops + 1
  /\ UNCHANGED <<listeners, calls, snapshot, lastFired, logged, uncaught>>

(***************************************************************************)
(* Observer                                                                *)
(***************************************************************************)
\* Observer.watch(selector, callback), part_001:263-269, called by the next
\* plugin with its selector
Watch(callback) ==
  /\ Len(listeners) < Len(Plugins)
  /\ LET selector == Plugins[Len(listeners) + 1]
         existing == QuerySelectorAll(parent, Root, selector)
     IN /\ listeners' = Append(listeners,
                               [selector |-> selector,
                                callback |-> callback,
                                alreadyExistedNodes |-> existing])
        /\ snapshot' = Append(snapshot, existing)
  /\ calls' = Append(calls, [n \in Nodes |-> 0])
  /\ lastFired' = Append(lastFired, <<>>)
  /\ logged' = Append(logged, 0)
  /\ UNCHANGED <<parent, queue, uncaught, ops>>

\* how often el occurs in the sequence s
Count(s, el) == Cardinality({i \in 1..Len(s) : s[i] = el})

\* The MutationObserver delivers the queued records as one batch to
\* Observer.check (part_001:250, 276-318)
Deliver ==
  /\ queue # <<>>
  /\ LET res == Check(listeners, parent, queue)
     IN /\ listeners' = [i \in 1..Len(listeners) |->
                           [listeners[i] EXCEPT !.alreadyExistedNodes = res[i].known]]
        /\ calls' = [i \in 1..Len(listeners) |->
                       [n \in Nodes |-> calls[i][n] + Count(res[i].fired, n)]]
        /\ lastFired' = [i \in 1..Len(listeners) |-> res[i].fired]
        /\ logged' = [i \in 1..Len(listeners) |-> res[i].logged]
        /\ uncaught' = (res # <<>> /\ res[Len(res)].escaped)
  /\ queue' = <<>>
  /\ UNCHANGED <<parent, snapshot, ops>>


(***************************************************************************)
(* REST.chain, REST.ts:338-455.                                            *)
(*                                                                         *)
(* A step of the chain is one element of the array:                        *)
(*   kind     - "function" (a function value), "string", or "object"       *)
(*   fields   - for an object, which of the fields "function" and "method" *)
(*              it has                                                     *)
(*   resolves - the name (the string, or the "function" field) is a        *)
(*              function of window                                         *)
(*   throws   - the step's function throws when it is invoked              *)
(*   callback - for a request step, its "callback" field: "none" when it   *)
(*              is not a function, else what the function does             *)
(*   id       - the position of the step in the array chain() was given    *)
(***************************************************************************)
StepShape(kind, fields, resolves, throws, callback) ==
  [kind |-> kind, fields |-> fields, resolves |-> resolves,
   throws |-> throws, callback |-> callback]

FunctionShapes == {StepShape("function", {}, TRUE, t, "none") : t \in BOOLEAN}

StringShapes ==
  {StepShape("string", {}, TRUE, t, "none") : t \in BOOLEAN}
    \cup {StepShape("string", {}, FALSE, FALSE, "none")}

FunctionFieldShapes ==
  {StepShape("object", {"function"}, TRUE, t, "none") : t \in BOOLEAN}
    \cup {StepShape("object", {"function"}, FALSE, FALSE, "none")}

RequestShapes ==
  {StepShape("object", {"method"}, FALSE, FALSE, c) : c \in {"none", "returns", "throws"}}

EmptyObjectShape == StepShape("object", {}, FALSE, FALSE, "none")

\* every step an in-memory array can hold
Shapes ==
  FunctionShapes \cup StringShapes \cup FunctionFieldShapes \cup RequestShapes
    \cup {EmptyObjectShape}

\* the steps JSON text can describe: no function values
JsonShapes == {s \in Shapes : s.kind # "function" /\ s.callback = "none"}

\* the steps f[1..j], each numbered by its position
WithIds(f, j) ==
  [i \in 1..j |-> [id |-> i, kind |-> f[i].kind, fields |-> f[i].fields,
                   resolves |-> f[i].resolves, throws |-> f[i].throws,
                   callback |-> f[i].callback]]

\* the arrays of at most MaxSteps steps over a set of shapes
StepLists(shapes) ==
  UNION {{WithIds(f, j) : f \in [1..j -> shapes]} : j \in 0..MaxSteps}

\* The first argument of chain(): an array, a string (JSON text that is
\* invalid, or describes an array, or an object without a length, or an
\* object whose length is 0), or a value of another type.
RawInputs ==
  {[type |-> "array", json |-> "", steps |-> l] : l \in StepLists(Shapes)}
    \cup {[type |-> "string", json |-> "array", steps |-> l] : l \in StepLists(JsonShapes)}
    \cup {[type |-> "string", json |-> j, steps |-> <<>>] :
            j \in {"invalid", "object", "objectLength0"}}
    \cup {[type |-> "other", json |-> "", steps |-> <<>>]}

\* what finalCallback is: not a function, or a function that returns or throws
FinalKinds == {"none", "returns", "throws"}

\* Arguments that hands the response to no one
ArgumentsNone(ev, arg) == <<>>

\* The arguments of an invocation of user code: a step's function and the
\* final callback are invoked without arguments (REST.ts:358, 376, 385,
\* 397), a request step's callback with the response (REST.ts:443)
Arguments(ev, arg) == IF ev = "callback" THEN <<arg>> ELSE <<>>

\* an entry of the log
Event(ev, step, arg) ==
  [ev |-> ev, step |-> step, arg |-> arg, args |-> Arguments(ev, arg)]

\* the events that start the execution of a step
StartEvents == {"call", "skip", "dispatch"}

\* the working state of a chain invocation
ChainState(cd, st, pnd, lg) ==
  [chainData |-> cd, status |-> st, pending |-> pnd, log |-> lg]

\* RunFinal without its try/catch: an exception of finalCallback leaves chain()
RunFinalUncaught(cs, final) ==
  IF final = "none"
  THEN [cs EXCEPT !.status = "completed"]
  ELSE [cs EXCEPT !.status = IF final = "throws" THEN "threw" ELSE "completed",
                  !.log = Append(@, Event("final", 0,
                                          IF final = "throws" THEN "threw" ELSE "returned"))]

\* REST.ts:355-365: the list is exhausted; finalCallback is invoked inside
\* try/catch when it is a function
RunFinal(cs, final) ==
  IF final = "none"
  THEN [cs EXCEPT !.status = "completed"]
  ELSE [cs EXCEPT !.status = "completed",
                  !.log = Append(@, Event("final", 0,
                                          IF final = "throws" THEN "threw" ELSE "returned"))]

\* Shift taking the last element (pop) instead of the first
ShiftLast(cd) == [data |-> cd[Len(cd)], rest |-> SubSeq(cd, 1, Len(cd) - 1)]

\* REST.ts:368: chainData.shift() takes the first element out of the array
Shift(cd) == [data |-> Head(cd), rest |-> Tail(cd)]

\* REST.ts:375-379, 384-388, 396-400: a user function is invoked inside
\* try/catch
InvokeStep(cs, data) ==
  [cs EXCEPT !.log = Append(@, Event("call", data.id,
                                     IF data.throws THEN "threw" ELSE "returned"))]

RECURSIVE RunChain(_, _, _)

\* Dispatch that does not wait: chain() goes on with the rest of the list
\* right after handing the request to REST.request
DispatchEager(cs, data, rest, final) ==
  RunChain(rest, [cs EXCEPT !.log = Append(@, Event("dispatch", data.id, "sent"))], final)

\* REST.ts:406-450: the request is built and handed to REST.request; chain()
\* returns, and the rest of the list waits for the request's callback
Dispatch(cs, data, rest, final) ==
  [cs EXCEPT !.chainData = rest,
             !.status = "waiting",
             !.pending = <<data>>,
             !.log = Append(@, Event("dispatch", data.id, "sent"))]

\* MissingField that lets the malformed step pass: chain() goes on with the
\* rest of the list
MissingFieldSkipped(cs, rest, final) == RunChain(rest, cs, final)

\* REST.ts:451-453: an object with neither "function" nor "method": chain()
\* throws Error('... "method" или "function" ...')
MissingField(cs, rest, final) == [cs EXCEPT !.chainData = rest, !.status = "threw"]

\* REST.ts:383, 391: a string that names no global function fails the test
\* of the string branch and reaches "'function' in data"; the in operator
\* on a primitive string throws a TypeError
UnresolvedString(cs, rest, final) == [cs EXCEPT !.chainData = rest, !.status = "threw"]

\* NamedFunction that goes on with the rest of the list, as the other
\* branches do
NamedFunctionContinues(cs, data, rest, final) ==
  RunChain(rest, InvokeStep(cs, data), final)

\* REST.ts:383-389: a string that names a global function: the function is
\* invoked inside try/catch, and chain() returns
NamedFunction(cs, data, rest, final) ==
  [InvokeStep(cs, data) EXCEPT !.chainData = rest, !.status = "stopped"]

\* FunctionStep that yields after the function: the rest of the list waits
\* for a later event
FunctionStepDeferred(cs, data, rest, final) ==
  [InvokeStep(cs, data) EXCEPT !.chainData = rest, !.status = "waiting",
                               !.pending = <<data>>]

\* REST.ts:374-381: a function value is invoked inside try/catch and chain()
\* is called on the rest of the list right away
FunctionStep(cs, data, rest, final) ==
  RunChain(rest, InvokeStep(cs, data), final)

\* REST.ts:354-455: chain() from the emptiness test on, on the array cd
RunChain(cd, cs, final) ==
  IF cd = <<>> THEN RunFinal([cs EXCEPT !.chainData = cd], final)
  ELSE LET data == Shift(cd).data
           rest == Shift(cd).rest
       IN IF data.kind = "function"
          THEN FunctionStep(cs, data, rest, final)
          ELSE IF data.kind = "string" /\ data.resolves
          THEN NamedFunction(cs, data, rest, final)
          ELSE IF data.kind = "string"
          THEN UnresolvedString(cs, rest, final)
          ELSE IF "function" \in data.fields
          THEN RunChain(rest,
                        IF data.resolves
                        THEN InvokeStep(cs, data)
                        ELSE [cs EXCEPT !.log = Append(@, Event("skip", data.id, "unresolved"))],
                        final)
          ELSE IF "method" \in data.fields
          THEN Dispatch(cs, data, rest, final)
          ELSE MissingField(cs, rest, final)

\* Chain that takes a value of another type for an empty list
ChainOtherAsEmpty(raw, final, cs) ==
  IF raw.type = "array" THEN RunChain(raw.steps, cs, final)
  ELSE IF raw.type = "string"
  THEN IF raw.json = "array" THEN RunChain(raw.steps, cs, final)
       ELSE IF raw.json = "objectLength0" THEN RunFinal(cs, final)
       ELSE [cs EXCEPT !.status = "threw"]
  ELSE RunFinal(cs, final)

\* REST.ts:338-368: chain(chainRawData, finalCallback)
Chain(raw, final, cs) ==
  IF raw.type = "array" THEN RunChain(raw.steps, cs, final)
  ELSE IF raw.type = "string"
  THEN IF raw.json = "array" THEN RunChain(raw.steps, cs, final)
       ELSE IF raw.json = "objectLength0" THEN RunFinal(cs, final)
       \* undefined (invalid JSON) or a value without shift(): a TypeError
       ELSE [cs EXCEPT !.status = "threw"]
  ELSE [cs EXCEPT !.status = "ignored"]

\* REST.ts:440-450: the callback chain() gives to REST.request: the step's
\* own callback inside try/catch, then chain() on the rest of the array
RequestCallback(cs, data, response, final) ==
  LET called == IF data.callback = "none" THEN cs
                ELSE [cs EXCEPT !.log = Append(@, Event("callback", data.id, response))]
  IN RunChain(cs.chainData, called, final)

\* REST.ts:93-99, 105-111: REST.request invokes callbackSuccess inside
\* try/catch: an exception of the continuation is written to console.error
CallbackSuccess(cs, data, response, final) ==
  LET done == RequestCallback(cs, data, response, final)
  IN IF done.status = "threw" THEN [done EXCEPT !.status = "swallowed"] ELSE done

\* CatchHandler that only logs the error: callbackSuccess is not invoked
CatchHandlerSilent(cs, data, final) == [cs EXCEPT !.status = "stopped"]

\* REST.ts:101-112: the catch handler of the fetch promise
CatchHandler(cs, data, final) == CallbackSuccess(cs, data, "null", final)

\* REST.ts:57-112: the fetch promise of the pending request settles.
\*   "ok"        - the response arrived and was parsed
\*   "reject"    - the transport rejected
\*   "parsefail" - response.json() rejected
Settled(cs, data, outcome, final) ==
  LET got == [cs EXCEPT !.pending = <<>>,
                        !.log = Append(@, Event("settle", data.id, outcome))]
  IN IF outcome = "ok" THEN CallbackSuccess(got, data, "response", final)
     ELSE CatchHandler(got, data, final)

Outcomes == {"ok", "reject", "parsefail"}

\* a script calls REST.chain(raw, final)
ChainCall(raw, final) ==
  /\ status = "idle"
  /\ chainInput' = [raw |-> raw, final |-> final]
  /\ LET cs == Chain(raw, final, ChainState(<<>>, "idle", <<>>, <<>>))
     IN /\ chainData' = cs.chainData
        /\ status' = cs.status
        /\ pending' = cs.pending
        /\ log' = cs.log

\* the pending request settles and its promise handlers run
SettleRequest(outcome) ==
  /\ status = "waiting"
  /\ LET cs == Settled(ChainState(chainData, status, pending, log), pending[1],
                       outcome, chainInput.final)
     IN /\ chainData' = cs.chainData
        /\ status' = cs.status
        /\ pending' = cs.pending
        /\ log' = cs.log
  /\ UNCHANGED chainInput

InitChain ==
  /\ chainInput = [raw |-> [type |-> "other", json |-> "", steps |-> <<>>], final |-> "none"]
  /\ chainData = <<>>
  /\ status = "idle"
  /\ pending = <<>>
  /\ log = <<>>

(***************************************************************************)
(* REST.request, REST.ts:17-113.                                           *)
(*                                                                         *)
(* The data argument (the payload):                                        *)
(*   kind    - "FormData", "HTMLFormElement", "object" (a plain object),   *)
(*             "string", "number", "null" or "undefined"                   *)
(*   entries - the key/value pairs of a FormData, of the fields of a form, *)
(*             or of the own properties of an object                       *)
(*   chars   - the characters of a string                                  *)
(*   number  - the value of a number                                       *)
(***************************************************************************)
Entry(key, value) == [key |-> key, value |-> value]

Data(kind, entries, chars, number) ==
  [kind |-> kind, entries |-> entries, chars |-> chars, number |-> number]

\* the selector a response-routing key of the payload names
RoutingSelector == "#box"

RoutingKeys == {"response_html", "response_text", "response_json"}

\* the payloads request() is called with
Payloads ==
  {Data("FormData", e, <<>>, 0) : e \in {<<>>, <<Entry("a", "1")>>}}
    \cup {Data("HTMLFormElement", <<Entry("a", "1"), Entry("b", "2")>>, <<>>, 0)}
    \cup {Data("object", e, <<>>, 0) :
            e \in {<<>>, <<Entry("a", "1")>>, <<Entry("a", "1"), Entry("b", "2")>>}}
    \cup {Data("object", <<Entry("a", "1"), Entry(k, RoutingSelector)>>, <<>>, 0) :
            k \in RoutingKeys}
    \cup {Data("string", <<>>, c, 0) : c \in {<<>>, <<"a", "b">>}}
    \cup {Data("number", <<>>, <<>>, n) : n \in {0, 5}}
    \cup {Data("null", <<>>, <<>>, 0), Data("undefined", <<>>, <<>>, 0)}

\* the method argument
Methods == {"GET", "get", "POST", "post", "PUT"}

\* the type argument; "" is null
Types == {"", "json", "html", "text"}

\* String.prototype.toLowerCase on the method names
ToLowerCase(m) ==
  CASE m = "POST" -> "post"
    [] m = "GET" -> "get"
    [] m = "PUT" -> "put"
    [] OTHER -> m

\* REST.ts:22-29: the method fetch() is given
TestedMethod(method) == IF ToLowerCase(method) = "post" THEN "POST" ELSE "GET"

\* REST.ts:22-29: how the response is read
DataType(method, type) ==
  IF type # "" THEN type
  ELSE IF ToLowerCase(method) = "post" THEN "json" ELSE "html"

\* the truthiness of data, REST.ts:42
Truthy(data) ==
  CASE data.kind = "string" -> data.chars # <<>>
    [] data.kind = "number" -> data.number # 0
    [] data.kind \in {"null", "undefined"} -> FALSE
    [] OTHER -> TRUE

\* REST.ts:45-47: Object.keys(data) and data[key]: the own properties of an
\* object, the indexed characters of a string, nothing for a number
OwnEntries(data) ==
  IF data.kind = "string"
  THEN [i \in 1..Len(data.chars) |-> Entry(ToString(i - 1), data.chars[i])]
  ELSE data.entries

\* REST.ts:37-50: the FormData built from data; ok is FALSE when request()
\* throws Error('... "data" ... не является объектом')
BuildFormData(data) ==
  IF data.kind = "FormData" THEN [ok |-> TRUE, entries |-> data.entries]
  ELSE IF data.kind = "HTMLFormElement" THEN [ok |-> TRUE, entries |-> data.entries]
  ELSE IF Truthy(data) THEN [ok |-> TRUE, entries |-> OwnEntries(data)]
  ELSE [ok |-> FALSE, entries |-> <<>>]

\* REST.ts:33-35, 52-57: the call of fetch(): the URL with the query string
\* of the FormData, the method, and the body when the method is post
FetchCall(method, url, formData) ==
  [method |-> TestedMethod(method),
   url |-> url,
   query |-> formData,
   hasBody |-> ToLowerCase(method) = "post",
   body |-> IF ToLowerCase(method) = "post" THEN formData ELSE <<>>]

\* an entry of reqLog
ReqEvent(ev, arg) == [ev |-> ev, arg |-> arg]

\* REST.ts:17-57: request() up to the call of fetch()
Request(method, type, url, data) ==
  LET formData == BuildFormData(data)
  IN IF formData.ok
     THEN [status |-> "pending", fetched |-> <<FetchCall(method, url, formData.entries)>>]
     ELSE [status |-> "threw", fetched |-> <<>>]

\* data[key] in the second then-handler: a property of a plain object
Property(data, key) ==
  IF data.kind = "object" /\ \E i \in 1..Len(data.entries) : data.entries[i].key = key
  THEN data.entries[CHOOSE i \in 1..Len(data.entries) : data.entries[i].key = key].value
  ELSE ""

\* what a resolved response is: for json an object with a message, or null;
\* for text and html a markup that holds an element matching the routing
\* selector, or a text that holds none
Responses(dataType) ==
  IF dataType = "json" THEN {"object", "null"} ELSE {"markup", "plain"}

\* REST.ts:71-90: the response is written into the elements the routing
\* keys select; matches says whether the document holds such an element.
\* A handler's TypeError (querySelector(...) is null, response is null)
\* ends the handler.
Route(data, response, matches) ==
  LET html == Property(data, "response_html") # "" /\ matches
      text == Property(data, "response_text") # "" /\ matches
      json == Property(data, "response_json") # "" /\ matches
  IN IF html /\ response # "markup"
     THEN [threw |-> TRUE, log |-> <<>>]
     ELSE IF json /\ response = "null"
     THEN [threw |-> TRUE,
           log |-> (IF html THEN <<ReqEvent("write", "html")>> ELSE <<>>)
                     \o (IF text THEN <<ReqEvent("write", "text")>> ELSE <<>>)]
     ELSE [threw |-> FALSE,
           log |-> (IF html THEN <<ReqEvent("write", "html")>> ELSE <<>>)
                     \o (IF text THEN <<ReqEvent("write", "text")>> ELSE <<>>)
                     \o (IF json THEN <<ReqEvent("write", "message")>> ELSE <<>>)]

\* REST.ts:93-99, 105-111: callbackSuccess is invoked inside try/catch when
\* it is a function
InvokeCallbackSuccess(callback, arg) ==
  IF callback = "none" THEN <<>>
  ELSE IF callback = "throws"
  THEN <<ReqEvent("onDone", arg), ReqEvent("error", "callback")>>
  ELSE <<ReqEvent("onDone", arg)>>

\* REST.ts:101-112: the catch handler of the promise chain
RequestCatch(callback) ==
  <<ReqEvent("error", "server")>> \o InvokeCallbackSuccess(callback, "null")

\* RequestThen without the try/catch around callbackSuccess: its exception
\* rejects the promise too, and the catch handler invokes it again
RequestThenUncaught(data, callback, response, matches) ==
  LET routed == Route(data, response, matches)
  IN IF routed.threw
     THEN routed.log \o RequestCatch(callback)
     ELSE IF callback = "throws"
     THEN routed.log \o <<ReqEvent("onDone", response)>> \o RequestCatch(callback)
     ELSE routed.log \o InvokeCallbackSuccess(callback, response)

\* REST.ts:70-100: the second then-handler; an exception of the routing
\* rejects the promise, which the catch handler then handles
RequestThen(data, callback, response, matches) ==
  LET routed == Route(data, response, matches)
  IN IF routed.threw
     THEN routed.log \o RequestCatch(callback)
     ELSE routed.log \o InvokeCallbackSuccess(callback, response)

\* REST.ts:57-112: what runs when the fetch promise settles
RequestSettled(data, callback, outcome, response, matches) ==
  IF outcome = "ok" THEN RequestThen(data, callback, response, matches)
  ELSE RequestCatch(callback)

\* the URL request() is called with
Url == "/page"

\* a script calls REST.request(method, type, url, data, callbackSuccess) on
\* a page that holds, or not, an element matching the routing selector
RequestCall(method, type, data, callback, matches) ==
  /\ reqStatus = "idle"
  /\ reqInput' = [method |-> method, type |-> type, data |-> data,
                  callback |-> callback, matches |-> matches]
  /\ LET r == Request(method, type, Url, data)
     IN /\ reqStatus' = r.status
        /\ fetched' = fetched \o r.fetched
  /\ UNCHANGED <<reqOutcome, reqLog>>

\* the fetch promise settles and the promise handlers run
RequestSettle(outcome, response) ==
  /\ reqStatus = "pending"
  /\ reqOutcome' = [outcome |-> outcome, response |-> response]
  /\ reqLog' = reqLog \o RequestSettled(reqInput.data, reqInput.callback,
                                        outcome, response, reqInput.matches)
  /\ reqStatus' = "done"
  /\ UNCHANGED <<reqInput, fetched>>

InitRequest ==
  /\ reqInput = [method |-> "GET", type |-> "", data |-> Data("null", <<>>, <<>>, 0),
                 callback |-> "none", matches |-> FALSE]
  /\ reqStatus = "idle"
  /\ fetched = <<>>
  /\ reqOutcome = [outcome |-> "none", response |-> "null"]
  /\ reqLog = <<>>

(***************************************************************************)
(* REST.formSubmit, REST.ts:130-241.                                       *)
(*                                                                         *)
(* The value of a data-faze-restapi-json-name attribute (a path) is the    *)
(* sequence of its characters, so that includes, indexOf, substring and    *)
(* startsWith are computed as the code computes them.  A field of a form:  *)
(*   tagged    - it has the attribute data-faze-restapi-json-name          *)
(*   jsonName  - the value of that attribute                               *)
(*   type      - "text", "checkbox" or "radio"                             *)
(*   checked, name, value - the properties of the control                  *)
(*   jsonKey, jsonValue   - data-faze-restapi-json-key / -json-value       *)
(*                          ("" when absent)                               *)
(***************************************************************************)
PathUserName == <<"u", "s", "e", "r", ".", "n", "a", "m", "e">>
PathUserEmail == <<"u", "s", "e", "r", ".", "e", "m", "a", "i", "l">>
PathOther == <<"o", "t", "h", "e", "r">>
PathUsername == <<"u", "s", "e", "r", "n", "a", "m", "e">>

Field(tagged, jsonName, type, checked, name, value, jsonKey, jsonValue) ==
  [tagged |-> tagged, jsonName |-> jsonName, type |-> type, checked |-> checked,
   name |-> name, value |-> value, jsonKey |-> jsonKey, jsonValue |-> jsonValue]

\* the fields a form is made of
FieldCatalogue ==
  { Field(TRUE, PathUserName, "text", FALSE, "a", "max", "", ""),
    Field(TRUE, PathUserEmail, "text", FALSE, "b", "a@b.com", "", ""),
    Field(TRUE, PathOther, "text", FALSE, "c", "x", "", ""),
    Field(TRUE, PathUserName, "checkbox", TRUE, "d", "on", "", ""),
    Field(TRUE, PathUserName, "checkbox", FALSE, "d", "on", "", ""),
    Field(TRUE, PathOther, "radio", FALSE, "r", "one", "", ""),
    Field(TRUE, PathUsername, "text", FALSE, "e", "w", "", ""),
    Field(TRUE, PathOther, "text", FALSE, "user", "x", "key", "jv"),
    Field(FALSE, <<>>, "text", FALSE, "a", "raw", "", "") }

\* the values of the attribute data-faze-restapi-notification of the form's
\* notification region; "none": the form has no such region
Notifications == {"none", "text", "json", "response_json"}

\* the values of the form's action attribute; "": the form has none
Actions == {"", "/submit"}

\* window.location.href
Href == "http://site/page"

\* the attribute data-faze-restapi-form: whether the form has it, and the
\* value REST.chain is given for it (REST.ts:222-223)
ChainAttribute(declared, raw) == [declared |-> declared, raw |-> raw]

\* formNode.dataset.fazeRestapiForm || null of an empty attribute
EmptyAttribute == [type |-> "other", json |-> "", steps |-> <<>>]

NoChain == ChainAttribute(FALSE, EmptyAttribute)

\* a form; merge says whether it has the attribute
\* data-faze-restapi-json-merge, notification is the mode of its first
\* notification region, more the modes of the regions after it, chain its
\* attribute data-faze-restapi-form
Form(fields, merge, notification, action) ==
  [isForm |-> TRUE, fields |-> fields, merge |-> merge,
   notification |-> notification, action |-> action,
   more |-> <<>>, chain |-> NoChain]

\* the form with further notification regions and a chain attribute
FormWith(form, more, chain) == [form EXCEPT !.more = more, !.chain = chain]

\* formNode.querySelectorAll('[data-faze-restapi-notification]'): the modes
\* of the regions, in document order
Regions(form) ==
  IF form.notification = "none" THEN <<>> ELSE <<form.notification>> \o form.more

\* the field lists of the forms formSubmit() is called with
FieldLists == UNION {[1..j -> FieldCatalogue] : j \in 0..MaxFields}

\* a node that is not a form
NotAForm ==
  [isForm |-> FALSE, fields |-> <<>>, merge |-> FALSE,
   notification |-> "none", action |-> "",
   more |-> <<>>, chain |-> NoChain]

\* String.prototype.includes, indexOf (of a character that occurs),
\* substring and startsWith on sequences of characters
Includes(str, c) == \E i \in 1..Len(str) : str[i] = c

IndexOf(str, c) == MinOf({i \in 1..Len(str) : str[i] = c}) - 1

Substring(str, from, to) == SubSeq(str, from + 1, to)

StartsWith(str, prefix) ==
  Len(prefix) <= Len(str) /\ SubSeq(str, 1, Len(prefix)) = prefix

RECURSIVE Text(_)
\* the string made of the characters cs
Text(cs) == IF cs = <<>> THEN "" ELSE Head(cs) \o Text(Tail(cs))

RECURSIVE Unique(_, _)
\* [...new Set(array)]: the distinct elements in the order of their first
\* occurrence
Unique(array, seen) ==
  IF array = <<>> THEN <<>>
  ELSE IF Head(array) \in seen THEN Unique(Tail(array), seen)
  ELSE <<Head(array)>> \o Unique(Tail(array), seen \cup {Head(array)})

\* REST.ts:136: new FormData(formNode): the named controls, checkboxes and
\* radio buttons only when checked
FormDataOf(form) ==
  LET successful == SelectSeq(form.fields,
                              LAMBDA f : /\ f.name # ""
                                         /\ f.type \in {"checkbox", "radio"} => f.checked)
  IN [i \in 1..Len(successful) |-> Entry(successful[i].name, successful[i].value)]

\* REST.ts:139, 153: formNode.querySelectorAll('[data-faze-restapi-json-name]')
JsonFields(form) == SelectSeq(form.fields, LAMBDA f : f.tagged)

\* REST.ts:143-145: what precedes the first dot, or the whole path
FirstSegment(inputDataName) ==
  IF Includes(inputDataName, ".")
  THEN Substring(inputDataName, 0, IndexOf(inputDataName, "."))
  ELSE inputDataName

\* REST.ts:142-146: the distinct names of the objects to build
JsonNames(form) ==
  LET fields == JsonFields(form)
  IN Unique([i \in 1..Len(fields) |-> FirstSegment(fields[i].jsonName)], {})

\* REST.ts:153-158: the fields collected for the object jsonName
InputsNodes(form, jsonName) ==
  SelectSeq(JsonFields(form),
            LAMBDA f : IF Includes(f.jsonName, ".")
                       THEN StartsWith(f.jsonName, jsonName \o <<".">>)
                       ELSE StartsWith(f.jsonName, jsonName))

\* Contributes without the test of checked
ContributesAlways(itemNode) == TRUE

\* REST.ts:162-165: not a checkbox or radio button, or a checked one
Contributes(itemNode) ==
  itemNode.type \notin {"radio", "checkbox"} \/ itemNode.checked

\* JsonNameForObject without the cut at the first dot
JsonNameForObjectWhole(itemNode) == itemNode.jsonName

\* REST.ts:168-173: the path inside the object: what follows the first dot,
\* or the empty string
JsonNameForObject(itemNode) ==
  IF Includes(itemNode.jsonName, ".")
  THEN Substring(itemNode.jsonName, IndexOf(itemNode.jsonName, ".") + 1,
                 Len(itemNode.jsonName))
  ELSE <<>>

\* REST.ts:175-176
Key(itemNode) == IF itemNode.jsonKey # "" THEN itemNode.jsonKey ELSE itemNode.name

Value(itemNode) == IF itemNode.jsonValue # "" THEN itemNode.jsonValue ELSE itemNode.value

(***************************************************************************)
(* Objects.  An object is the sequence of its leaves, in the order the     *)
(* keys were created; a leaf is the path of keys that leads to a string    *)
(* value.                                                                  *)
(***************************************************************************)
Leaf(path, value) == [path |-> path, value |-> value]

IsPrefix(p, q) == Len(p) <= Len(q) /\ SubSeq(q, 1, Len(p)) = p

\* two places of an object of which one lies inside the other
Conflict(p, q) == IsPrefix(p, q) \/ IsPrefix(q, p)

RECURSIVE Tokens(_, _)
\* stringData.split('.') without the empty tokens; current collects the
\* characters of the token being read
Tokens(chars, current) ==
  IF chars = <<>>
  THEN (IF current = <<>> THEN <<>> ELSE <<Text(current)>>)
  ELSE IF Head(chars) = "."
  THEN (IF current = <<>> THEN <<>> ELSE <<Text(current)>>) \o Tokens(Tail(chars), <<>>)
  ELSE Tokens(Tail(chars), Append(current, Head(chars)))

\* Helpers.objectFromString(jsonObject, stringData, key, value): value is
\* put under key at the level the dot path leads to, the levels in between
\* being created as needed
ObjectFromString(jsonObject, stringData, key, value) ==
  LET place == Tokens(stringData, <<>>) \o <<key>>
  IN IF \E i \in 1..Len(jsonObject) : jsonObject[i].path = place
     THEN [i \in 1..Len(jsonObject) |->
             IF jsonObject[i].path = place THEN Leaf(place, value) ELSE jsonObject[i]]
     ELSE Append(SelectSeq(jsonObject, LAMBDA l : ~Conflict(l.path, place)),
                 Leaf(place, value))

\* the parsed value of the attribute data-faze-restapi-json-merge
MergeFragment == <<Leaf(<<"static">>, "s")>>

\* Helpers.mergeDeep(objectToMerge, jsonObject): the fragment underneath the
\* constructed object
MergeDeep(objectToMerge, jsonObject) ==
  SelectSeq(objectToMerge,
            LAMBDA l : \A i \in 1..Len(jsonObject) : ~Conflict(l.path, jsonObject[i].path))
    \o jsonObject

RECURSIVE Stringify(_)
RECURSIVE Members(_, _)
\* JSON.stringify of an object: the members of the keys, in order
Members(object, keys) ==
  IF keys = <<>> THEN ""
  ELSE LET k == Head(keys)
           under == SelectSeq(object, LAMBDA l : Head(l.path) = k)
           member ==
             "\"" \o k \o "\":" \o
               (IF Len(under[1].path) = 1
                THEN "\"" \o under[1].value \o "\""
                ELSE Stringify([i \in 1..Len(under) |->
                                  Leaf(Tail(under[i].path), under[i].value)]))
       IN member \o (IF Tail(keys) = <<>> THEN "" ELSE ",") \o Members(object, Tail(keys))

Stringify(object) ==
  "{" \o Members(object, Unique([i \in 1..Len(object) |-> Head(object[i].path)], {}))
      \o "}"

(***************************************************************************)
(* The working state of formSubmit: the object being built, the outgoing   *)
(* FormData, the objects appended so far.                                  *)
(***************************************************************************)
\* REST.ts:160-185: one collected field
HandleItem(st, itemNode) ==
  [st EXCEPT
     !.jsonObject = IF Contributes(itemNode)
                    THEN ObjectFromString(@, JsonNameForObject(itemNode),
                                          Key(itemNode), Value(itemNode))
                    ELSE @,
     !.formData = SelectSeq(@, LAMBDA e : e.key # itemNode.name)]

RECURSIVE ForEachItem(_, _)
ForEachItem(st, inputsNodes) ==
  IF inputsNodes = <<>> THEN st
  ELSE ForEachItem(HandleItem(st, Head(inputsNodes)), Tail(inputsNodes))

\* REST.ts:149-206: the object of one name is built, merged and appended
BuildObject(st, form, jsonName) ==
  LET built == ForEachItem([st EXCEPT !.jsonObject = <<>>], InputsNodes(form, jsonName))
      jsonRealName == Text(FirstSegment(jsonName))
      jsonObject == IF form.merge THEN MergeDeep(MergeFragment, built.jsonObject)
                    ELSE built.jsonObject
  IN [built EXCEPT
        !.jsonObject = jsonObject,
        !.formData = Append(@, Entry(jsonRealName, Stringify(jsonObject))),
        !.appended = Append(@, [name |-> jsonRealName, object |-> jsonObject])]

RECURSIVE ForEachName(_, _, _)
ForEachName(st, form, jsonNames) ==
  IF jsonNames = <<>> THEN st
  ELSE ForEachName(BuildObject(st, form, Head(jsonNames)), form, Tail(jsonNames))

\* REST.ts:209: the URL of the request
FormUrl(form) == IF form.action # "" THEN form.action ELSE Href

\* REST.ts:212-218: the type of response asked for
TypeForResponse(form) ==
  IF form.notification = "response_json" THEN "json" ELSE "text"

\* REST.ts:130-241: formSubmit() up to its call of REST.request
Submit(form) ==
  IF ~form.isForm
  THEN [threw |-> TRUE, formData |-> <<>>, appended |-> <<>>]
  ELSE LET st == ForEachName([jsonObject |-> <<>>, formData |-> FormDataOf(form),
                              appended |-> <<>>],
                             form, JsonNames(form))
       IN [threw |-> FALSE,
           formData |-> Append(st.formData, Entry("from", Href)),
           appended |-> st.appended]

\* a script calls REST.formSubmit(formNode, callback): the outgoing data,
\* assembled as done, is handed to REST.request as a POST
FormSubmit(form, done, callback) ==
  /\ formStatus = "idle"
  /\ reqStatus = "idle"
  /\ formInput' = form
  /\ formCallback' = callback
  /\ UNCHANGED formLog
  /\ IF done.threw
     THEN /\ formStatus' = "threw"
          /\ formAppended' = <<>>
          /\ UNCHANGED reqVars
     ELSE /\ formStatus' = "submitted"
          /\ formAppended' = done.appended
          /\ \E data \in {Data("FormData", done.formData, <<>>, 0)} :
               /\ reqInput' = [method |-> "POST", type |-> TypeForResponse(form),
                               data |-> data, callback |-> "returns",
                               matches |-> FALSE]
               /\ \E r \in {Request("POST", TypeForResponse(form), FormUrl(form), data)} :
                    /\ reqStatus' = r.status
                    /\ fetched' = fetched \o r.fetched
          /\ UNCHANGED <<reqOutcome, reqLog>>

\* the value of a property that an object or a string does not have
Undefined == "undefined"

\* an entry of formLog
FormEvent(ev, region, content) == [ev |-> ev, region |-> region, content |-> content]

\* response.message: the message of an object, undefined of a string
Message(response) == IF response = "object" THEN "message" ELSE Undefined

RECURSIVE ForEachRegion(_, _, _)
\* REST.ts:227-233: the response is written into the regions from the i-th
\* on; response.message of null is a TypeError that ends the loop
ForEachRegion(regions, i, response) ==
  IF i > Len(regions) THEN <<>>
  ELSE IF regions[i] = "response_json"
  THEN IF response = "null"
       THEN <<FormEvent("threw", i, "TypeError")>>
       ELSE <<FormEvent("write", i, Message(response))>>
              \o ForEachRegion(regions, i + 1, response)
  ELSE <<FormEvent("write", i, response)>> \o ForEachRegion(regions, i + 1, response)

\* FormCallbackSuccess that invokes the callback itself when the form
\* declares no chain
FormCallbackSuccessAlways(form, callback, response) ==
  LET cs == Chain(form.chain.raw, callback, ChainState(<<>>, "idle", <<>>, <<>>))
  IN IF form.chain.declared
     THEN IF cs.status = "threw"
          THEN [chain |-> cs, log |-> <<FormEvent("threw", 0, "chain")>>]
          ELSE [chain |-> cs,
                log |-> <<FormEvent("chain", 0, cs.status)>>
                          \o ForEachRegion(Regions(form), 1, response)]
     ELSE [chain |-> cs,
           log |-> <<FormEvent("callback", 0, "none")>>
                     \o ForEachRegion(Regions(form), 1, response)]

\* REST.ts:221-234: callbackSuccess(response): the chain of the form, when
\* it has the attribute, then the notification regions; an exception of
\* REST.chain leaves callbackSuccess before the regions.  The event "chain"
\* records the return of REST.chain and the status it returned with.
FormCallbackSuccess(form, callback, response) ==
  LET cs == Chain(form.chain.raw, callback, ChainState(<<>>, "idle", <<>>, <<>>))
  IN IF form.chain.declared
     THEN IF cs.status = "threw"
          THEN [chain |-> cs, log |-> <<FormEvent("threw", 0, "chain")>>]
          ELSE [chain |-> cs,
                log |-> <<FormEvent("chain", 0, cs.status)>>
                          \o ForEachRegion(Regions(form), 1, response)]
     ELSE [chain |-> cs, log |-> ForEachRegion(Regions(form), 1, response)]

\* callbackSuccess threw
Threw(events) == \E i \in 1..Len(events) : events[i].ev = "threw"

\* REST.ts:57-112, 221-234: the fetch promise of the form's request settles:
\* REST.request invokes callbackSuccess, with the response or with null,
\* inside try/catch
FormSettle(outcome, response) ==
  /\ formStatus = "submitted"
  /\ reqStatus = "pending"
  /\ \E done \in {FormCallbackSuccess(formInput, formCallback,
                                      IF outcome = "ok" THEN response ELSE "null")} :
       /\ formLog' = formLog \o done.log
       /\ reqLog' = reqLog \o RequestSettled(reqInput.data,
                                             IF Threw(done.log) THEN "throws" ELSE "returns",
                                             outcome, response, reqInput.matches)
       /\ IF formInput.chain.declared
          THEN /\ chainInput' = [raw |-> formInput.chain.raw, final |-> formCallback]
               /\ chainData' = done.chain.chainData
               /\ status' = done.chain.status
               /\ pending' = done.chain.pending
               /\ log' = done.chain.log
          ELSE UNCHANGED chainVars
  /\ reqOutcome' = [outcome |-> outcome, response |-> response]
  /\ reqStatus' = "done"
  /\ formStatus' = "done"
  /\ UNCHANGED <<reqInput, fetched, formInput, formAppended, formCallback>>

\* the modes of the regions after the first
MoreRegions == {<<>>, <<"text">>, <<"json">>, <<"response_json">>}

\* the arrays of at most MaxFormSteps steps that the attribute can describe
FormStepLists ==
  UNION {{WithIds(f, j) : f \in [1..j -> JsonShapes]} : j \in 0..MaxFormSteps}

\* the attribute data-faze-restapi-form: absent, empty, or a text
ChainAttributes ==
  {NoChain, ChainAttribute(TRUE, EmptyAttribute)}
    \cup {ChainAttribute(TRUE, [type |-> "string", json |-> "array", steps |-> l]) :
            l \in FormStepLists}
    \cup {ChainAttribute(TRUE, [type |-> "string", json |-> j, steps |-> <<>>]) :
            j \in {"invalid", "object", "objectLength0"}}

InitForm ==
  /\ formInput = NotAForm
  /\ formStatus = "idle"
  /\ formAppended = <<>>
  /\ formCallback = "none"
  /\ formLog = <<>>

(***************************************************************************)
(* REST.dataAttr: a chain declared on an element, run at once or after     *)
(* the delay of its first step                                             *)
(***************************************************************************)

\* the elements of the page that carry a chain; both have a name
Elements == {1, 2}

\* what a user can type into an element
Values == {"v1", "v2"}

\* the ids that Math.round(new Date().getTime() + Math.random() * 100000)
\* can give (REST.ts:307)
GeneratedIds == {101, 102}

\* content of the attribute data-faze-restapi-attr, or the array passed:
\* json is "invalid", "object" or "array"; length is the number of steps
\* of the array, delay tells whether its first step has a truthy delay
DataObject(kind, element, hasAttribute, json, length, delay) ==
  [kind |-> kind, element |-> element, hasAttribute |-> hasAttribute,
   json |-> json, length |-> length, delay |-> delay]

\* the values dataAttr can be called with: an Element, an array, or
\* something else
DataObjects ==
  {DataObject("element", e, FALSE, "invalid", 0, FALSE) : e \in Elements}
  \cup {DataObject("element", e, TRUE, j, 0, FALSE) :
          e \in Elements, j \in {"invalid", "object"}}
  \cup {DataObject("element", e, TRUE, "array", 0, FALSE) : e \in Elements}
  \cup {DataObject("element", e, TRUE, "array", 1, d) :
          e \in Elements, d \in BOOLEAN}
  \cup {DataObject("array", 0, FALSE, "array", 0, FALSE)}
  \cup {DataObject("array", 0, FALSE, "array", 1, d) : d \in BOOLEAN}
  \cup {DataObject("other", 0, FALSE, "invalid", 0, FALSE)}

\* an entry of dataLog
DataEvent(ev, element, timer, value) ==
  [ev |-> ev, element |-> element, timer |-> timer, value |-> value]

\* REST.ts:262: the array of timer ids, created empty by every call
TimeoutID == <<>>

\* REST.ts:264-292: the tests dataAttr makes before it looks at the steps
DataAttrThrows(object) ==
  \/ object.kind = "other"
  \/ object.kind = "element" /\ ~object.hasAttribute
  \/ object.kind = "element" /\ object.json # "array"

\* the number a new timer gets
NextTimer == Cardinality({i \in 1..Len(dataLog) : dataLog[i].ev = "set"}) + 1

\* REST.ts:304-320: the first step has a delay: the element gets an id when
\* it has none, the timer found in timeoutID under that id is cleared, and
\* a new timer is set and stored there
Delay(object, id) ==
  LET e == object.element
      timeoutID == TimeoutID
      cleared == IF id \in DOMAIN timeoutID THEN {timeoutID[id]} ELSE {}
      timer == [timer |-> NextTimer, element |-> e]
  IN /\ elementId' = [elementId EXCEPT ![e] = id]
     /\ timers' = (timers \ cleared) \cup {timer}
     /\ dataLog' = Append(dataLog, DataEvent("set", e, NextTimer, "none"))

\* a script calls REST.dataAttr(object, finalCallback)
DataAttr(object) ==
  /\ dataOps < MaxCalls
  /\ dataOps' = dataOps + 1
  /\ UNCHANGED elementValue
  /\ IF DataAttrThrows(object)
     THEN /\ dataLog' = Append(dataLog, DataEvent("threw", object.element, 0, "none"))
          /\ UNCHANGED <<elementId, timers>>
     ELSE IF object.length = 0
     THEN UNCHANGED <<elementId, timers, dataLog>>
     ELSE IF object.delay
     THEN IF object.kind = "array"
          \* REST.ts:306: element is null
          THEN /\ dataLog' = Append(dataLog, DataEvent("threw", 0, 0, "none"))
               /\ UNCHANGED <<elementId, timers>>
          ELSE IF elementId[object.element] # 0
               THEN Delay(object, elementId[object.element])
               ELSE \E id \in GeneratedIds : Delay(object, id)
     \* REST.ts:321-328: the chain is run at once, the element's value in
     \* its first step
     ELSE /\ dataLog' = Append(dataLog,
                           DataEvent("chain", object.element, 0,
                                     IF object.kind = "element"
                                     THEN elementValue[object.element]
                                     ELSE "none"))
          /\ UNCHANGED <<elementId, timers>>

\* REST.ts:314-320: a timer fires: the element's value of that moment is
\* put into the first step and the chain is run
Timeout(t) ==
  /\ t \in timers
  /\ timers' = timers \ {t}
  /\ dataLog' = Append(dataLog,
                       DataEvent("chain", t.element, t.timer, elementValue[t.element]))
  /\ UNCHANGED <<elementId, elementValue, dataOps>>

\* the user changes the value of an element
Input(e, v) ==
  /\ dataOps < MaxCalls
  /\ elementValue[e] # v
  /\ dataOps' = dataOps + 1
  /\ elementValue' = [elementValue EXCEPT ![e] = v]
  /\ UNCHANGED <<elementId, timers, dataLog>>

\* element 1 has an id attribute, element 2 has none
InitDataAttr ==
  /\ elementId = [e \in Elements |-> IF e = 1 THEN 1 ELSE 0]
  /\ elementValue = [e \in Elements |-> "v1"]
  /\ timers = {}
  /\ dataLog = <<>>
  /\ dataOps = 0

(***************************************************************************)
(* REST.chain on a request step, REST.ts:406-450: the request the step     *)
(* becomes.  The step is an object: the sequence of its own properties     *)
(* (Entry), in insertion order; page values are sequences of characters.   *)
(***************************************************************************)

\* window.location.pathname
Pathname == <<"/", "c", "u", "r">>

\* key in data
In(key, data) == \E i \in 1..Len(data) : data[i].key = key

\* data[key]
Get(data, key) ==
  IF In(key, data)
  THEN data[CHOOSE i \in 1..Len(data) : data[i].key = key].value
  ELSE Undefined

\* data[key] = value
Put(data, key, value) ==
  IF In(key, data)
  THEN [i \in 1..Len(data) |-> IF data[i].key = key THEN Entry(key, value) ELSE data[i]]
  ELSE Append(data, Entry(key, value))

\* delete data[key]
Delete(data, key) == SelectSeq(data, LAMBDA e : e.key # key)

\* the truthiness of data[key]: the values the steps declare are non-empty
\* strings and functions, so a property is truthy when it is there
TruthyAt(data, key) == In(key, data)

\* PageUrl that appends .txt to every page
PageUrlAlwaysTxt(page) == Text(<<"/">> \o page \o <<".", "t", "x", "t">>)

\* REST.ts:413, 418: /^\//.test(page) ? page : `/${page}.txt`
PageUrl(page) ==
  IF page # <<>> /\ Head(page) = "/"
  THEN Text(page)
  ELSE Text(<<"/">> \o page \o <<".", "t", "x", "t">>)

\* REST.ts:408-419: the URL of the request and the step after the module
\* was copied into show
PageAndModule(data) ==
  LET page == Get(data, "page")
      module == Get(data, "module")
  IN IF TruthyAt(data, "page") /\ TruthyAt(data, "module")
     THEN [url |-> PageUrl(page), data |-> Put(data, "show", module)]
     ELSE IF TruthyAt(data, "module")
     THEN [url |-> Text(Pathname), data |-> Put(data, "show", module)]
     ELSE IF TruthyAt(data, "page")
     THEN [url |-> PageUrl(page), data |-> data]
     ELSE [url |-> Text(Pathname), data |-> data]

\* REST.ts:421-428: what a post adds, and the default mime
PostFields(data) ==
  IF ToLowerCase(Get(data, "method")) = "post"
  THEN Put(Put(Put(data, "update", Get(data, "module")), "from", Href), "mime", "json")
  ELSE IF ~In("mime", data) THEN Put(data, "mime", "txt")
  ELSE data

\* Strip that leaves the module in the payload
StripKeepsModule(data) ==
  Delete(Delete(Delete(data, "method"), "page"), "callback")

\* REST.ts:433-437: the fields that are not sent to the server
Strip(data) ==
  Delete(Delete(Delete(Delete(data, "method"), "module"), "page"), "callback")

\* REST.ts:371, 406-440: the arguments of REST.request for the step data
RequestOf(data) ==
  LET pm == PageAndModule(data)
  IN [method |-> Get(data, "method"),
      type |-> IF TruthyAt(data, "type") THEN Get(data, "type") ELSE "",
      url |-> pm.url,
      data |-> Strip(PostFields(pm.data)),
      callback |-> IF In("callback", data) THEN "returns" ELSE "none"]

\* the properties a step may have besides method
StepPages == {<<>>, <<"/", "p">>, <<"p">>}

StepOptions ==
  {<<>>, <<Entry("module", "m")>>}

StepCallbacks == {<<>>, <<Entry("callback", "function")>>}

StepMimes == {<<>>, <<Entry("mime", "xml")>>}

StepTypes == {<<>>, <<Entry("type", "json")>>}

StepExtras == {<<>>, <<Entry("a", "1")>>, <<Entry("show", "own")>>}

\* the request steps REST.chain is given
RequestSteps ==
  {<<Entry("method", m)>>
     \o (IF p = <<>> THEN <<>> ELSE <<Entry("page", p)>>)
     \o o \o c \o mi \o t \o x :
     m \in {"get", "post", "POST"}, p \in StepPages, o \in StepOptions,
     c \in StepCallbacks, mi \in StepMimes, t \in StepTypes, x \in StepExtras}

\* a script calls REST.chain([data]) with the request step data: the step
\* is rewritten and handed to REST.request, and the chain waits
ChainRequest(data) ==
  /\ stepInput = <<>>
  /\ reqStatus = "idle"
  /\ stepInput' = data
  /\ \E r \in {RequestOf(data)} :
       /\ ChainCall([type |-> "array", json |-> "",
                     steps |-> WithIds(<<StepShape("object", {"method"}, FALSE,
                                                   FALSE, r.callback)>>, 1)],
                    "none")
       /\ \E payload \in {Data("object", r.data, <<>>, 0)} :
            /\ reqInput' = [method |-> r.method, type |-> r.type, data |-> payload,
                            callback |-> "returns", matches |-> FALSE]
            /\ \E f \in {Request(r.method, r.type, r.url, payload)} :
                 /\ reqStatus' = f.status
                 /\ fetched' = fetched \o f.fetched
  /\ UNCHANGED <<reqOutcome, reqLog>>

InitStep == stepInput = <<>>

(***************************************************************************)
(* REST.chain called twice with the same array, REST.ts:342-343, 368, 449  *)
(***************************************************************************)

\* an invocation of chain() that has not been made
Idle == [final |-> "none", status |-> "idle", pending |-> <<>>, log |-> <<>>,
         chainData |-> <<>>]

\* the state of an invocation after a run of chain() that ended in cs
Invocation(final, cs) ==
  [final |-> final, status |-> cs.status, pending |-> cs.pending, log |-> cs.log,
   chainData |-> cs.chainData]

\* the steps of the arrays handed over twice: functions, and requests with
\* a callback
SharedShapes == FunctionShapes \cup {s \in RequestShapes : s.callback # "none"}

\* the arrays whose first step is a request step
SharedArrays ==
  {l \in StepLists(SharedShapes) : l # <<>> /\ l[1].kind = "object"}

\* the final callbacks of the two invocations: functions
SharedFinals == FinalKinds \ {"none"}

\* Remaining for an invocation that keeps a copy of the array
RemainingOwn(own, array) == own

\* REST.ts:342-343, 449: chainData is the array chain() was given, not a
\* copy: the continuation of a request step goes on with what the array
\* holds by then
Remaining(own, array) == array

\* a script calls REST.chain(array, final) for the first time
SharedFirstCall(array, final) ==
  /\ invocations[1].status = "idle"
  /\ sharedInput' = array
  /\ \E cs \in {RunChain(array, ChainState(<<>>, "idle", <<>>, <<>>), final)} :
       /\ shared' = cs.chainData
       /\ invocations' = [invocations EXCEPT ![1] = Invocation(final, cs)]

\* a script calls REST.chain(array, final) with the same array while the
\* request of the first invocation is pending
SharedSecondCall(final) ==
  /\ invocations[1].status = "waiting"
  /\ invocations[2].status = "idle"
  /\ \E cs \in {RunChain(shared, ChainState(<<>>, "idle", <<>>, <<>>), final)} :
       /\ shared' = cs.chainData
       /\ invocations' = [invocations EXCEPT ![2] = Invocation(final, cs)]
  /\ UNCHANGED sharedInput

\* the pending request of invocation k settles
SharedSettle(k, outcome) ==
  /\ invocations[k].status = "waiting"
  /\ \E cs \in {Settled(ChainState(Remaining(invocations[k].chainData, shared),
                                   "waiting", invocations[k].pending,
                                   invocations[k].log),
                        invocations[k].pending[1], outcome, invocations[k].final)} :
       /\ shared' = cs.chainData
       /\ invocations' = [invocations EXCEPT ![k] = Invocation(invocations[k].final, cs)]
  /\ UNCHANGED sharedInput

InitShared ==
  /\ sharedInput = <<>>
  /\ shared = <<>>
  /\ invocations = <<Idle, Idle>>

\* The page when the Observer is constructed: node 1 is in the document,
\* node 3 is the root of a detached fragment that holds node 2, every other
\* node is created and detached.
InitialDocument ==
  [n \in Nodes |-> IF n = 1 THEN Root ELSE IF n = 2 THEN 3 ELSE Null]

InitObserver ==
  /\ parent = InitialDocument
  /\ queue = <<>>
  /\ listeners = <<>>
  /\ calls = <<>>
  /\ snapshot = <<>>
  /\ lastFired = <<>>
  /\ logged = <<>>
  /\ uncaught = FALSE
  /\ ops = 0

Init ==
  /\ InitObserver /\ InitChain /\ InitRequest /\ InitForm
  /\ InitDataAttr /\ InitStep /\ InitShared

AppendStep ==
  /\ \E p \in Nodes \cup {Root}, n \in Nodes : AppendChild(p, n)
  /\ UNCHANGED <<chainVars, reqVars, formVars, restVars>>

RemoveStep ==
  /\ \E n \in Nodes : RemoveChild(n)
  /\ UNCHANGED <<chainVars, reqVars, formVars, restVars>>

WatchStep ==
  /\ \E callback \in CallbackKinds : Watch(callback)
  /\ UNCHANGED <<chainVars, reqVars, formVars, restVars>>

DeliverStep ==
  /\ Deliver
  /\ UNCHANGED <<chainVars, reqVars, formVars, restVars>>

NextObserver ==
  \/ AppendStep
  \/ RemoveStep
  \/ WatchStep
  \/ DeliverStep

\* the page's scripts, the DOM and the watcher
SpecObserver == Init /\ [][NextObserver]_vars

ChainCallStep ==
  /\ status = "idle"
  /\ \E raw \in RawInputs, final \in FinalKinds : ChainCall(raw, final)
  /\ UNCHANGED <<obsVars, reqVars, formVars, restVars>>

SettleStep ==
  /\ status = "waiting"
  /\ \E outcome \in Outcomes : SettleRequest(outcome)
  /\ UNCHANGED <<obsVars, reqVars, formVars, restVars>>

NextChain ==
  \/ ChainCallStep
  \/ SettleStep

\* one invocation of REST.chain and the requests it sends
SpecChain == Init /\ [][NextChain]_vars

RequestCallStep ==
  /\ reqStatus = "idle"
  /\ \E method \in Methods, type \in Types, data \in Payloads,
        callback \in FinalKinds, matches \in BOOLEAN :
       RequestCall(method, type, data, callback, matches)
  /\ UNCHANGED <<obsVars, chainVars, formVars, restVars>>

RequestSettleStep ==
  /\ reqStatus = "pending"
  /\ \/ \E outcome \in {"reject", "parsefail"} : RequestSettle(outcome, "null")
     \/ \E response \in Responses(DataType(reqInput.method, reqInput.type)) :
          RequestSettle("ok", response)
  /\ UNCHANGED <<obsVars, chainVars, formVars, restVars>>

NextRequest ==
  \/ RequestCallStep
  \/ RequestSettleStep

\* one call of REST.request and its fetch
SpecRequest == Init /\ [][NextRequest]_vars

\* the assembly of the outgoing data depends on the fields and the merge
\* attribute only: it is computed once for the forms that share them
FormSubmitStep ==
  /\ formStatus = "idle"
  /\ \/ \E fields \in FieldLists, merge \in BOOLEAN :
          \E done \in {Submit(Form(fields, merge, "none", ""))} :
            \E notification \in Notifications, action \in Actions :
              FormSubmit(Form(fields, merge, notification, action), done, "none")
     \/ FormSubmit(NotAForm, Submit(NotAForm), "none")
  /\ UNCHANGED <<obsVars, chainVars, restVars>>

NextForm ==
  \/ FormSubmitStep

\* one call of REST.formSubmit
SpecForm == Init /\ [][NextForm]_vars

\* formSubmit() on the forms of one text field, with their notification
\* regions and chain attribute, and a callback
FormSubmitChainStep ==
  /\ formStatus = "idle"
  /\ \E form \in {Form(<<Field(FALSE, <<>>, "text", FALSE, "a", "raw", "", "")>>,
                         FALSE, "none", "")} :
       \E done \in {Submit(form)} :
         \E notification \in Notifications, more \in MoreRegions,
            chain \in ChainAttributes, callback \in FinalKinds :
           /\ notification = "none" => more = <<>>
           /\ FormSubmit(FormWith([form EXCEPT !.notification = notification],
                                  more, chain),
                         done, callback)
  /\ UNCHANGED <<obsVars, chainVars, restVars>>

FormSettleStep ==
  /\ formStatus = "submitted"
  /\ \/ \E outcome \in {"reject", "parsefail"} : FormSettle(outcome, "null")
     \/ \E response \in Responses(DataType(reqInput.method, reqInput.type)) :
          FormSettle("ok", response)
  /\ UNCHANGED <<obsVars, restVars>>

NextFormDone ==
  \/ FormSubmitChainStep
  \/ FormSettleStep
  \/ SettleStep

\* one call of REST.formSubmit, the completion of its request and of the
\* requests of its chain
SpecFormDone == Init /\ [][NextFormDone]_vars

DataAttrStep ==
  /\ \E object \in DataObjects : DataAttr(object)
  /\ UNCHANGED <<obsVars, chainVars, reqVars, formVars, stepVars, sharedVars>>

TimeoutStep ==
  /\ \E t \in timers : Timeout(t)
  /\ UNCHANGED <<obsVars, chainVars, reqVars, formVars, stepVars, sharedVars>>

InputStep ==
  /\ \E e \in Elements, v \in Values : Input(e, v)
  /\ UNCHANGED <<obsVars, chainVars, reqVars, formVars, stepVars, sharedVars>>

NextDataAttr ==
  \/ DataAttrStep
  \/ TimeoutStep
  \/ InputStep

\* calls of REST.dataAttr, the user's typing and the timers
SpecDataAttr == Init /\ [][NextDataAttr]_vars

ChainRequestStep ==
  /\ \E data \in RequestSteps : ChainRequest(data)
  /\ UNCHANGED <<obsVars, formVars, dataVars, sharedVars>>

NextStep ==
  \/ ChainRequestStep

\* one call of REST.chain on a request step, up to the fetch
SpecStep == Init /\ [][NextStep]_vars

SharedFirstCallStep ==
  /\ \E array \in SharedArrays, final \in SharedFinals : SharedFirstCall(array, final)
  /\ UNCHANGED <<obsVars, chainVars, reqVars, formVars, dataVars, stepVars>>

SharedSecondCallStep ==
  /\ \E final \in SharedFinals : SharedSecondCall(final)
  /\ UNCHANGED <<obsVars, chainVars, reqVars, formVars, dataVars, stepVars>>

SharedSettleStep ==
  /\ \E k \in {1, 2}, outcome \in Outcomes : SharedSettle(k, outcome)
  /\ UNCHANGED <<obsVars, chainVars, reqVars, formVars, dataVars, stepVars>>

NextShared ==
  \/ SharedFirstCallStep
  \/ SharedSecondCallStep
  \/ SharedSettleStep

\* two invocations of REST.chain on one array
SpecShared == Init /\ [][NextShared]_vars

(***************************************************************************)
(* Properties of the mutation watcher (SpecObserver)                       *)
(***************************************************************************)
ListenerIds == 1..Len(listeners)

\* node n matches the selector of listener l
Matches(l, n) == listeners[l].selector \in DataFaze(n)

\* a step that delivers a batch: only Deliver empties a non-empty queue
IsDeliver == queue # <<>> /\ queue' = <<>>

\* n is listed in removedNodes / addedNodes of a record of the batch
ListedRemoved(records, n) ==
  \E i \in 1..Len(records) : \E j \in 1..Len(records[i].removedNodes) :
    records[i].removedNodes[j] = n

ListedAdded(records, n) ==
  \E i \in 1..Len(records) : \E j \in 1..Len(records[i].addedNodes) :
    records[i].addedNodes[j] = n

\* C1: no node that matched the listener's selector when watch() was called
\* ever triggers that listener's callback.
C1_PreexistingNeverTrigger ==
  \A l \in ListenerIds : \A n \in snapshot[l] : calls[l][n] = 0

\* C2: once every batch is delivered, a matching node that was inserted into
\* the document after the listener was registered has triggered the
\* listener's callback exactly once.
C2_InsertedExactlyOnce ==
  \A l \in ListenerIds : \A n \in Nodes :
    (/\ queue = <<>>
     /\ Matches(l, n)
     /\ n \notin snapshot[l]
     /\ InDocument(parent, n))
      => calls[l][n] = 1

\* C3: a listener's callback has been invoked at most once for each node.
C3_AtMostOncePerNode ==
  \A l \in ListenerIds : \A n \in Nodes : calls[l][n] <= 1

AddedOrUnderAdded(records, par, n) ==
  \E a \in Nodes : ListedAdded(records, a) /\ (n = a \/ IsUnder(par, n, a))

\* C31: when a batch is processed, a listener's callback is invoked only on
\* nodes that match its selector and are an added node of the batch or a
\* descendant of one.
C31_FiredOnlyForAddedOrDescendants ==
  [][IsDeliver =>
       \A l \in ListenerIds : \A n \in Nodes :
         calls'[l][n] > calls[l][n] =>
           /\ Matches(l, n)
           /\ AddedOrUnderAdded(queue, parent, n)]_vars

\* C35: after a batch is processed every node of a listener's known-node
\* set is attached to the document, also a node that left the document
\* inside a removed ancestor.
C35_KnownNodesAttached ==
  [][IsDeliver =>
       \A l \in ListenerIds : \A n \in listeners'[l].alreadyExistedNodes :
         InDocument(parent', n)]_vars

\* the listeners with callbacks that never throw
Quiet(ls) == [i \in 1..Len(ls) |-> [ls[i] EXCEPT !.callback = "returns"]]

\* C5: a throwing callback changes nothing but the log: no exception leaves
\* the batch handler, every exception is caught and logged, every node whose
\* callback threw is in the known-node set after the batch unless the batch
\* lists it as removed, and the known-node sets and the invocations of every
\* listener are those of the same batch with callbacks that do not throw.
C5_ThrowingCallbackIsolated ==
  [][IsDeliver =>
       LET res == Check(Quiet(listeners), parent, queue)
       IN /\ ~uncaught'
          /\ \A l \in ListenerIds :
               /\ listeners'[l].alreadyExistedNodes = res[l].known
               /\ lastFired'[l] = res[l].fired
               /\ logged'[l] = IF listeners[l].callback = "throws"
                               THEN Len(lastFired'[l]) ELSE 0
               /\ \A n \in Nodes :
                    (Count(lastFired'[l], n) > 0 /\ ~ListedRemoved(queue, n))
                      => n \in listeners'[l].alreadyExistedNodes]_vars

\* in one batch a throwing callback was invoked on two nodes and another
\* listener's callback was invoked too
C5_Witness ==
  \E l \in ListenerIds, k \in ListenerIds :
    /\ l # k
    /\ listeners[l].callback = "throws"
    /\ logged[l] >= 2
    /\ Len(lastFired[k]) >= 1
    /\ ~uncaught

(***************************************************************************)
(* Properties of the chain engine (SpecChain)                              *)
(***************************************************************************)
\* the array chain() was given, and its finalCallback
InputSteps == chainInput.raw.steps
Final == chainInput.final

\* the invocation is over: chain() has returned or thrown and no request is
\* pending
Finished == status \notin {"idle", "waiting"}

\* the positions of the log that hold an event of the kinds evs
Positions(evs) == {p \in 1..Len(log) : log[p].ev \in evs}

\* C6: chain([], onComplete) executes no step and invokes onComplete exactly
\* once; an exception of onComplete does not leave chain().
C6_EmptyChainFiresFinalOnce ==
  (/\ status # "idle"
   /\ chainInput.raw.type = "array"
   /\ InputSteps = <<>>
   /\ Final # "none")
    => /\ status = "completed"
       /\ Len(log) = 1
       /\ log[1].ev = "final"

\* chain([], onComplete) has run with an onComplete that throws
C6_Witness ==
  /\ status = "completed"
  /\ chainInput.raw.type = "array"
  /\ InputSteps = <<>>
  /\ Final = "throws"
  /\ log = <<Event("final", 0, "threw")>>

\* a step of the four well-formed kinds: a function value, a string naming
\* a global function, an object with a function field, an object with a
\* method field
WellFormedStep(s) ==
  \/ s.kind = "function"
  \/ s.kind = "string" /\ s.resolves
  \/ s.kind = "object" /\ s.fields # {}

\* C7: when an invocation on an array of well-formed steps is over (every
\* request has settled), the final callback has fired exactly once, as the
\* last thing, after every step was started.
C7_FinalExactlyOnceAfterLastStep ==
  (/\ Finished
   /\ chainInput.raw.type = "array"
   /\ \A i \in 1..Len(InputSteps) : WellFormedStep(InputSteps[i])
   /\ Final # "none")
    => /\ Cardinality(Positions({"final"})) = 1
       /\ log[Len(log)].ev = "final"
       /\ \A i \in 1..Len(InputSteps) :
            \E p \in Positions(StartEvents) : log[p].step = i

\* C8: the steps an invocation executes are executed in the order of the
\* array, and none more than once.
C8_StepsInOrderNoRetry ==
  \A p \in Positions(StartEvents) : \A q \in Positions(StartEvents) :
    p < q => log[p].step < log[q].step

\* a chain went on after a rejected request and after a throwing step, and
\* executed three steps
C8_Witness ==
  /\ Cardinality(Positions(StartEvents)) = 3
  /\ \E p \in Positions({"settle"}) : log[p].arg = "reject"
  /\ \E p \in Positions({"call"}) : log[p].arg = "threw"
  /\ \E p \in Positions({"callback"}) : TRUE

\* the step of the array with the given id
StepOf(id) == InputSteps[id]

\* C9: while a request is pending no later step has started, and between
\* the dispatch of a request step and the start of any later step (or the
\* final callback) lie the settling of the request and, when the step has a
\* callback, the call of that callback.
C9_NextStepAfterResponseAndCallback ==
  /\ status = "waiting" =>
       \A p \in Positions(StartEvents \cup {"final"}) :
         log[p].ev # "final" /\ log[p].step <= pending[1].id
  /\ \A p \in Positions({"dispatch"}) :
       \A q \in Positions(StartEvents \cup {"final"}) :
         p < q =>
           \E r \in Positions({"settle"}) :
             /\ p < r /\ r < q
             /\ log[r].step = log[p].step
             /\ StepOf(log[p].step).callback # "none" =>
                  \E c \in Positions({"callback"}) :
                    r < c /\ c < q /\ log[c].step = log[p].step

\* [A(function), B(request with a callback), C(function)] has run to its end
C9_Witness ==
  /\ status = "completed"
  /\ Len(InputSteps) = 3
  /\ InputSteps[1].kind = "function"
  /\ "method" \in InputSteps[2].fields
  /\ InputSteps[2].callback = "returns"
  /\ InputSteps[3].kind = "function"
  /\ \E p \in Positions({"call"}) : log[p].step = 3

\* C10: when the transport of a request step rejects, the step's callback
\* (if it is a function) is invoked next, with null, and right after it the
\* next step of the array, if it is well-formed, is started, or the final
\* callback is invoked when the request was the last step.
C10_RejectedRequestContinues ==
  \A p \in Positions({"settle"}) :
    log[p].arg = "reject" =>
      LET id == log[p].step
          hasCallback == StepOf(id).callback # "none"
          next == IF hasCallback THEN p + 2 ELSE p + 1
      IN /\ hasCallback =>
              /\ Len(log) >= p + 1
              /\ log[p + 1] = Event("callback", id, "null")
         /\ (id < Len(InputSteps) /\ WellFormedStep(StepOf(id + 1))) =>
              /\ Len(log) >= next
              /\ log[next].ev \in StartEvents
              /\ log[next].step = id + 1
         /\ (id = Len(InputSteps) /\ Final # "none") =>
              /\ Len(log) >= next
              /\ log[next].ev = "final"

\* a request with a callback was rejected, a further step ran, and the last
\* step, a request too, was rejected before the final callback
C10_Witness ==
  /\ status = "completed"
  /\ Final # "none"
  /\ Len(InputSteps) = 3
  /\ \E p \in Positions({"settle"}) :
       log[p].arg = "reject" /\ log[p].step = 1 /\ StepOf(1).callback # "none"
  /\ \E p \in Positions({"settle"}) : log[p].arg = "reject" /\ log[p].step = 3

\* the step at position i was taken out of the array, and it is the last one
\* that was
LastTaken(i) == Len(chainData) = Len(InputSteps) - i

\* C12: chain() called with a value that is neither an array nor a string
\* returns silently: no step is executed, the final callback is not invoked
\* and no error is raised.
C12_OtherInputIgnored ==
  (status # "idle" /\ chainInput.raw.type = "other")
    => status = "ignored" /\ log = <<>>

\* chain() was called with such a value and a final callback
C12_Witness ==
  /\ status = "ignored"
  /\ chainInput.raw.type = "other"
  /\ Final = "returns"

\* C13: chain() called with a string that is not valid JSON, or whose
\* parsed value is not an array, ends in an error: no step is executed and
\* the final callback is not invoked.
C13_BadJsonIsTerminalError ==
  (status # "idle" /\ chainInput.raw.type = "string" /\ chainInput.raw.json # "array")
    => status = "threw" /\ log = <<>>

\* an object step with neither a function nor a method field
Malformed(s) == s.kind = "object" /\ s.fields = {}

\* C14: when the step chain() takes is an object with neither a function
\* nor a method field, the invocation ends with an error there: that step
\* and the steps after it are not executed and the final callback is not
\* invoked.
C14_MissingFieldEndsChain ==
  \A i \in 1..Len(InputSteps) :
    Malformed(InputSteps[i]) =>
      /\ \A p \in Positions(StartEvents) : log[p].step < i
      /\ Positions({"final"}) = {}
      /\ (Finished /\ LastTaken(i)) => status \in {"threw", "swallowed"}

\* a malformed step was reached after a request step, with steps after it
C14_Witness ==
  /\ Len(InputSteps) = 3
  /\ "method" \in InputSteps[1].fields
  /\ Malformed(InputSteps[2])
  /\ Final = "returns"
  /\ Finished
  /\ LastTaken(2)
  /\ \E p \in Positions({"settle"}) : log[p].step = 1

\* some user code of the invocation throws
SomeUserCodeThrows ==
  \/ Final = "throws"
  \/ \E i \in 1..Len(InputSteps) :
       InputSteps[i].throws \/ InputSteps[i].callback = "throws"

\* C15: an exception thrown by user code of a chain of well-formed steps (a
\* function step, a named global function, a request step's callback, the
\* final callback) does not abort the chain: when the invocation is over
\* every step was executed and the final callback was invoked.
C15_UserExceptionDoesNotAbort ==
  (/\ Finished
   /\ chainInput.raw.type = "array"
   /\ \A i \in 1..Len(InputSteps) : WellFormedStep(InputSteps[i])
   /\ SomeUserCodeThrows)
    => /\ status = "completed"
       /\ \A i \in 1..Len(InputSteps) :
            \E p \in Positions(StartEvents) : log[p].step = i
       /\ Final # "none" => Cardinality(Positions({"final"})) = 1

\* a step that names a global function that does not exist
UnresolvedName(s) ==
  /\ ~s.resolves
  /\ \/ s.kind = "string"
     \/ s.kind = "object" /\ "function" \in s.fields

\* C16: a step that names a global function that cannot be resolved (a bare
\* string, or the function field of an object) is skipped: no function is
\* invoked for it, no error is raised at it, and the next step is executed,
\* or the final callback when it was the last step.
C16_UnresolvedNameSkipped ==
  \A i \in 1..Len(InputSteps) :
    (/\ UnresolvedName(InputSteps[i])
     /\ Finished
     /\ Len(chainData) <= Len(InputSteps) - i)
      => /\ \A p \in Positions({"call"}) : log[p].step # i
         /\ ~(LastTaken(i) /\ status \in {"threw", "swallowed"})
         /\ (i < Len(InputSteps) /\ WellFormedStep(InputSteps[i + 1])) =>
              \E p \in Positions(StartEvents) : log[p].step = i + 1
         /\ (i = Len(InputSteps) /\ Final # "none") =>
              Positions({"final"}) # {}

\* the request step at position i got its response, and the next step of
\* the array was started
AnsweredAndFollowed(i) ==
  /\ \E p \in Positions({"settle"}) : log[p].step = i /\ log[p].arg = "ok"
  /\ \E q \in Positions(StartEvents) : log[q].step = i + 1

NamedFunctionInvoked(i) ==
  /\ InputSteps[i].kind = "string"
  /\ InputSteps[i].resolves
  /\ \E p \in Positions({"call"}) : log[p].step = i

DataPositions(ev) == {i \in 1..Len(dataLog) : dataLog[i].ev = ev}

\* the timer set at position p has fired before position q
FiredBefore(p, q) ==
  \E r \in DataPositions("chain") : r < q /\ dataLog[r].timer = dataLog[p].timer

\* dataAttr was invoked at p and again at q for the same element, with a
\* delay, and the delay of p had not elapsed at q
SecondBeforeElapsed(p, q) ==
  /\ p < q
  /\ dataLog[p].element = dataLog[q].element
  /\ ~FiredBefore(p, q)

\* C24: when dataAttr is invoked twice for the same element with a delay,
\* the second time before the first delay has elapsed, the pending run of
\* the first invocation is cancelled: its timer is no longer pending and
\* never runs the chain.
C24_DelayedRunDebounced ==
  \A p, q \in DataPositions("set") :
    SecondBeforeElapsed(p, q) =>
      /\ \A t \in timers : t.timer # dataLog[p].timer
      /\ \A r \in DataPositions("chain") : dataLog[r].timer # dataLog[p].timer

\* the same, seen at the end: both timers have fired and the chain ran twice
C24_RanTwice ==
  \E p, q \in DataPositions("set") :
    /\ SecondBeforeElapsed(p, q)
    /\ timers = {}
    /\ Cardinality({r \in DataPositions("chain") :
                      dataLog[r].element = dataLog[p].element /\ dataLog[r].timer # 0}) = 2

\* the step is a function value or an object with a "function" field
NonRequestStep(step) ==
  \/ step.kind = "function"
  \/ step.kind = "object" /\ "function" \in step.fields

\* chain() was called on an array of non-request steps only
OnlyNonRequestSteps ==
  /\ status # "idle"
  /\ \/ chainInput.raw.type = "array"
     \/ chainInput.raw.type = "string" /\ chainInput.raw.json = "array"
  /\ \A i \in 1..Len(InputSteps) : NonRequestStep(InputSteps[i])

\* C32: a chain made only of function values and objects with a function
\* field runs synchronously: when chain() returns, every step has been
\* handled, in the order of the array, the final callback has been invoked
\* after them, and the chain never waited for an event.
C32_NonRequestChainSynchronous ==
  OnlyNonRequestSteps =>
    /\ status = "completed"
    /\ pending = <<>>
    /\ chainData = <<>>
    /\ Len(log) = Len(InputSteps) + (IF Final = "none" THEN 0 ELSE 1)
    /\ \A i \in 1..Len(InputSteps) :
         /\ log[i].step = i
         /\ log[i].ev = (IF InputSteps[i].resolves THEN "call" ELSE "skip")
    /\ Final # "none" => log[Len(log)].ev = "final"

\* chain([function, object with a function field, function], final) ran
C32_Witness ==
  /\ OnlyNonRequestSteps
  /\ Len(InputSteps) = 3
  /\ InputSteps[1].kind = "function"
  /\ InputSteps[2].kind = "object"
  /\ InputSteps[3].kind = "function"
  /\ Final = "returns"
  /\ Len(log) = 4

(***************************************************************************)
(* Properties of a request step of the chain (SpecStep)                    *)
(***************************************************************************)

\* the request step was handed to REST.request
StepSent == stepInput # <<>> /\ reqStatus = "pending"

\* the payload REST.request was given
StepPayload == reqInput.data.entries

ControlFields == {"method", "module", "page", "callback"}

AcceptedKinds == {"FormData", "HTMLFormElement", "object"}

\* the calls of callbackSuccess, in order
OnDoneCalls == SelectSeq(reqLog, LAMBDA e : e.ev = "onDone")

\* C11: for every payload, a GET is issued with no body and the whole
\* payload in the query string of the URL, and a POST is issued with the
\* payload as the body and no payload in the URL.
C11_GetQueryPostBody ==
  (reqStatus # "idle" /\ reqInput.data.kind \in AcceptedKinds)
    => /\ Len(fetched) = 1
       /\ fetched[1].method \in {"GET", "POST"}
       /\ fetched[1].method = "GET" =>
            /\ ~fetched[1].hasBody
            /\ fetched[1].query = reqInput.data.entries
       /\ fetched[1].method = "POST" =>
            /\ fetched[1].hasBody
            /\ fetched[1].body = reqInput.data.entries
            /\ fetched[1].query = <<>>

\* C17: when the promise has settled, callbackSuccess was called with the
\* parsed response if the transport succeeded and the response was parsed,
\* and with null if the transport or the parsing failed; an exception of
\* callbackSuccess is caught and logged.
C17_OnDoneResponseOrNull ==
  (reqStatus = "done" /\ reqInput.callback # "none")
    => /\ reqOutcome.outcome = "ok" =>
            OnDoneCalls = <<ReqEvent("onDone", reqOutcome.response)>>
       /\ reqOutcome.outcome # "ok" =>
            OnDoneCalls = <<ReqEvent("onDone", "null")>>
       /\ reqInput.callback = "throws" =>
            reqLog[Len(reqLog)] = ReqEvent("error", "callback")

\* C18: for a payload that is not a key/value collection, a form element or
\* a FormData, request() throws and issues no request.
C18_OtherPayloadRejected ==
  (reqStatus # "idle" /\ reqInput.data.kind \notin AcceptedKinds)
    => reqStatus = "threw" /\ fetched = <<>>

\* C34: for every call of request with a callback, the callback is invoked
\* exactly once when the fetch settles, with the response or with null,
\* never twice, also when the routing of the response or the callback
\* itself throws; before the fetch settles it is not invoked.
C34_CallbackExactlyOnce ==
  /\ reqStatus # "done" => Len(OnDoneCalls) = 0
  /\ (reqStatus = "done" /\ reqInput.callback # "none") => Len(OnDoneCalls) = 1
  /\ (reqStatus = "done" /\ reqInput.callback = "none") => Len(OnDoneCalls) = 0

\* the response arrived, the callback was given it and threw, and was not
\* invoked again
C34_Witness ==
  /\ reqStatus = "done"
  /\ reqInput.callback = "throws"
  /\ reqOutcome.outcome = "ok"
  /\ Len(OnDoneCalls) = 1
  /\ OnDoneCalls[1].arg = reqOutcome.response
  /\ \E i \in 1..Len(reqLog) : reqLog[i] = ReqEvent("error", "callback")

(***************************************************************************)
(* Properties of the form adapter (SpecForm)                               *)
(***************************************************************************)
\* the positions of the tagged fields of the submitted form
TaggedFields == {i \in 1..Len(formInput.fields) : formInput.fields[i].tagged}

\* the dot-separated segments of a field's path
Segments(f) == Tokens(f.jsonName, <<>>)

\* the place of a field's value inside its object: the segments after the
\* first, then the field's key
PlaceOf(f) == Tail(Segments(f)) \o <<Key(f)>>

\* the object appended under the key name
AppendedUnder(name) ==
  formAppended[CHOOSE i \in 1..Len(formAppended) : formAppended[i].name = name].object

HasLeaf(object, path, value) ==
  \E i \in 1..Len(object) : object[i] = Leaf(path, value)

\* the body of the POST holds the entry key=value
Sent(key, value) ==
  /\ Len(fetched) = 1
  /\ fetched[1].method = "POST"
  /\ \E i \in 1..Len(fetched[1].body) : fetched[1].body[i] = Entry(key, value)

\* the form of the example: text fields tagged user.name (named a, value
\* max), user.email (named b, value a@b.com) and other (named c, value x)
ExampleSubmitted ==
  /\ formStatus = "submitted"
  /\ ~formInput.merge
  /\ formInput.fields =
       << Field(TRUE, PathUserName, "text", FALSE, "a", "max", "", ""),
          Field(TRUE, PathUserEmail, "text", FALSE, "b", "a@b.com", "", ""),
          Field(TRUE, PathOther, "text", FALSE, "c", "x", "", "") >>

\* the places of the fields of the submitted form, by position
Places ==
  [i \in 1..Len(formInput.fields) |->
     IF formInput.fields[i].tagged THEN PlaceOf(formInput.fields[i]) ELSE <<>>]

\* the names of the objects the fields of the submitted form belong to
ObjectNames ==
  [i \in 1..Len(formInput.fields) |->
     IF formInput.fields[i].tagged THEN Head(Segments(formInput.fields[i])) ELSE ""]

\* the object of field i holds the field's value at the field's place
ContributedAt(i, places, names) ==
  /\ \E k \in 1..Len(formAppended) : formAppended[k].name = names[i]
  /\ HasLeaf(AppendedUnder(names[i]), places[i], Value(formInput.fields[i]))

\* the value of a tagged field that is not an unchecked checkbox or radio
\* button is in the object appended under the first segment of its path, at
\* the nesting the rest of the path gives, unless a later tagged field
\* writes the same place
GroupedByFirstSegment ==
  formStatus = "submitted" =>
    \E places \in {Places} : \E names \in {ObjectNames} :
      \A i \in TaggedFields :
        (/\ formInput.fields[i].type \in {"checkbox", "radio"} => formInput.fields[i].checked
         /\ \A j \in TaggedFields : j > i => ~Conflict(places[j], places[i]))
          => ContributedAt(i, places, names)

\* C19 as stated: the example's fields give {name: max, email: a@b.com}
\* under the key user, the field tagged other lies at the root of an object
\* of its own, and fields are grouped by the first segment of their path
\* and nested by the rest.
C19_PathGrouping ==
  /\ ExampleSubmitted =>
       /\ Sent("user", "{\"name\":\"max\",\"email\":\"a@b.com\"}")
       /\ \E l \in 1..Len(AppendedUnder("other")) :
            /\ Len(AppendedUnder("other")[l].path) = 1
            /\ AppendedUnder("other")[l].value = "x"
  /\ GroupedByFirstSegment

\* C19 amended: the example's fields, with the keys a, b and c (the fields'
\* names), give {name: {a: max}, email: {b: a@b.com}} appended under the key
\* user and {c: x} appended under the key other, both sent in the body; and
\* fields are grouped by the first segment of their path and nested by the
\* rest, the value lying under the field's key at that level.
C19_PathGroupingKeyed ==
  /\ ExampleSubmitted =>
       /\ Sent("user", "{\"name\":{\"a\":\"max\"},\"email\":{\"b\":\"a@b.com\"}}")
       /\ Sent("other", "{\"c\":\"x\"}")
       /\ AppendedUnder("other") = <<Leaf(<<"c">>, "x")>>
  /\ GroupedByFirstSegment

\* the example's form was submitted
C19_Witness ==
  /\ ExampleSubmitted
  /\ Len(formAppended) = 2
  /\ reqStatus = "pending"

\* no other tagged field of the form writes the place of field i
AloneAt(i, places) ==
  \A j \in TaggedFields \ {i} : ~Conflict(places[j], places[i])

\* C20: a tagged checkbox or radio button contributes its value to the
\* assembled object if and only if it is checked; a tagged field of another
\* type always contributes.
C20_CheckedOnlyContributes ==
  formStatus = "submitted" =>
    \E places \in {Places} : \E names \in {ObjectNames} :
      \A i \in TaggedFields :
        AloneAt(i, places) =>
          IF formInput.fields[i].type \in {"checkbox", "radio"}
          THEN formInput.fields[i].checked <=> ContributedAt(i, places, names)
          ELSE ContributedAt(i, places, names)

\* a form with a checked checkbox that contributed, an unchecked radio
\* button that did not, and a text field that did
C20_Witness ==
  /\ formStatus = "submitted"
  /\ \E i \in TaggedFields, j \in TaggedFields, k \in TaggedFields :
       /\ AloneAt(i, Places) /\ AloneAt(j, Places) /\ AloneAt(k, Places)
       /\ formInput.fields[i].type = "checkbox"
       /\ formInput.fields[i].checked
       /\ ContributedAt(i, Places, ObjectNames)
       /\ formInput.fields[j].type = "radio"
       /\ ~formInput.fields[j].checked
       /\ ~ContributedAt(j, Places, ObjectNames)
       /\ formInput.fields[k].type = "text"
       /\ ContributedAt(k, Places, ObjectNames)

\* the leaf comes from the static fragment merged into every object
FromFragment(leaf) ==
  formInput.merge /\ \E m \in 1..Len(MergeFragment) : MergeFragment[m] = leaf

\* C29: the fields collected for an object name are exactly those whose
\* path has that name as its first segment: every value of the object
\* appended under a name comes from such a field (a field tagged username
\* gives nothing to the object user), and every such field that contributes
\* is in it.
C29_CollectedByFirstSegment ==
  formStatus = "submitted" =>
    \E places \in {Places} : \E names \in {ObjectNames} :
      /\ \A k \in 1..Len(formAppended) :
           \A l \in 1..Len(formAppended[k].object) :
             \/ FromFragment(formAppended[k].object[l])
             \/ \E i \in TaggedFields :
                  /\ names[i] = formAppended[k].name
                  /\ places[i] = formAppended[k].object[l].path
                  /\ Value(formInput.fields[i]) = formAppended[k].object[l].value
      /\ \A i \in TaggedFields :
           (AloneAt(i, places) /\ Contributes(formInput.fields[i])) =>
             ContributedAt(i, places, names)

\* the body of the POST
Body == fetched[1].body

\* the raw entry new FormData(formNode) holds for field i
RawEntry(i) == Entry(formInput.fields[i].name, formInput.fields[i].value)

\* field i is a successful control: new FormData(formNode) has its entry
Successful(i) ==
  /\ formInput.fields[i].name # ""
  /\ formInput.fields[i].type \in {"checkbox", "radio"} => formInput.fields[i].checked

\* C30: the raw entry of every tagged field is removed from the outgoing
\* data, checked or not and contributing or not, and the raw entries of the
\* untagged fields are left as they were.
C30_OnlyTaggedEntriesRemoved ==
  (formStatus = "submitted" /\ Len(fetched) = 1) =>
    \A i \in 1..Len(formInput.fields) :
      IF formInput.fields[i].tagged
      THEN (\A j \in 1..Len(formInput.fields) :
              formInput.fields[j].tagged \/ RawEntry(j) # RawEntry(i))
             => \A b \in 1..Len(Body) : Body[b] # RawEntry(i)
      ELSE Successful(i) => \E b \in 1..Len(Body) : Body[b] = RawEntry(i)

(***************************************************************************)
(* Properties of the completion of formSubmit (SpecFormDone)               *)
(***************************************************************************)

\* the positions of formLog that hold a write into the region i
WritesInto(i) ==
  {p \in 1..Len(formLog) : formLog[p].ev = "write" /\ formLog[p].region = i}

\* what callbackSuccess was given: the response, or null after a failure
Given == IF reqOutcome.outcome = "ok" THEN reqOutcome.response ELSE "null"

\* C21: formSubmit asks for a json response exactly when the form's
\* notification region has the mode json, and for text when it has the mode
\* text or there is no region; on completion a region in mode json gets the
\* message of the response and every other region the raw response.
C21_JsonModeAsksJson ==
  (/\ formStatus \in {"submitted", "done"}
   /\ \A i \in 1..Len(Regions(formInput)) : Regions(formInput)[i] \in {"text", "json"}) =>
    /\ reqInput.type = (IF formInput.notification = "json" THEN "json" ELSE "text")
    /\ \A p \in 1..Len(formLog) :
         formLog[p].ev = "write" =>
           formLog[p].content =
             IF Regions(formInput)[formLog[p].region] = "json"
             THEN Message(Given) ELSE Given

\* C22: after the POST of formSubmit has settled with a response, the
\* response is in every notification region, whether the form declares a
\* chain or not and whatever the chain did.
C22_ResponseWrittenWhateverChain ==
  (/\ formStatus = "done"
   /\ Given # "null") =>
    \A i \in 1..Len(Regions(formInput)) : WritesInto(i) # {}

ChainEndedInside ==
  {p \in 1..Len(formLog) : formLog[p].ev = "chain" /\ formLog[p].content = "completed"}

\* C33: the callback of formSubmit is invoked after everything else: when it
\* is invoked the POST has settled, the chain has run to its end, and the
\* response (when there is one) is already in the notification regions.
C33_CallbackAfterEverything ==
  (Positions({"final"}) # {} /\ Given # "null") =>
    /\ formStatus = "done"
    /\ status = "completed"
    /\ \A i \in 1..Len(Regions(formInput)) :
         /\ WritesInto(i) # {}
         /\ \A p \in ChainEndedInside : \E w \in WritesInto(i) : w < p

(***************************************************************************)
(* Properties of two invocations on one array (SpecShared)                 *)
(***************************************************************************)

\* the events of invocation k that start the step i of the array
StartsOf(k, i) ==
  {p \in 1..Len(invocations[k].log) :
     invocations[k].log[p].ev \in StartEvents /\ invocations[k].log[p].step = i}

\* the invocations of the final callback of invocation k
FinalsOf(k) ==
  {p \in 1..Len(invocations[k].log) : invocations[k].log[p].ev = "final"}

\* C36: when the array of a first invocation, whose request step is
\* pending, is handed to a second invocation, every step of the array is
\* executed at most once in both invocations together, and the final
\* callback of each invocation is invoked at most once.
C36_SharedArrayStepsOnce ==
  /\ \A i \in 1..Len(sharedInput) :
       Cardinality(StartsOf(1, i)) + Cardinality(StartsOf(2, i)) <= 1
  /\ \A k \in {1, 2} : Cardinality(FinalsOf(k)) <= 1

\* both invocations ran on the array [request, function, request] and are
\* over: the second executed steps the first had left, each final callback
\* was invoked once
C36_Witness ==
  /\ Len(sharedInput) = 3
  /\ \A k \in {1, 2} :
       /\ invocations[k].status = "completed"
       /\ invocations[k].final = "returns"
       /\ Cardinality(FinalsOf(k)) = 1
  /\ StartsOf(1, 1) # {}
  /\ StartsOf(2, 2) # {}
  /\ StartsOf(2, 3) # {}
  /\ shared = <<>>

====
